---- MODULE Spec2Model ----
(***************************************************************************)
(* Availability sync of overseerr (class AvailabilitySync).                *)
(*                                                                         *)
(* The repository holds two revisions of the class:                        *)
(*   "part" : src/unnamed/part_001                                         *)
(*   "lib"  : src/server/lib/availabilitySync.ts                           *)
(* The variable impl selects the revision a behaviour runs; run(),         *)
(* cancel(), loadAvailableMediaPaginated() and initPlexClient() are the    *)
(* same text in both, the existence checks and the updates differ and are  *)
(* modelled separately (suffix Lib for the lib revision).                  *)
(*                                                                         *)
(* JavaScript runs one callback at a time, so the code between two awaits  *)
(* is atomic.  A run() invocation is a process whose steps are             *)
(*   RunStart  (up to the await of initPlexClient),                        *)
(*   RunInit   (initPlexClient returns),                                   *)
(*   Fetch     (the await of mediaRepository.find in the generator),       *)
(*   Take      (the generator yields a record, the loop tests running),    *)
(*   Process   (mediaExists and the updates and saves run() awaits),       *)
(* and the mediaUpdater calls that are not awaited live on as tasks        *)
(* (UpdaterQuery, UpdaterSave) that finish at any later time.              *)
(***************************************************************************)
EXTENDS Integers, Sequences, FiniteSets, TLC

\* ---------------------------------------------------------------- bounds
MaxRuns == 2       \* run() invocations in one behaviour
NumMedia == 3      \* records of the catalogues used for pagination
PageSize == 2      \* pageSize of run(), scaled down from 50
NumSeasons == 2    \* seasons of a series

\* ------------------------------------------------------------- constants
\* null: a column that is not set. The values of set columns are tuples.
Null == <<>>

UNKNOWN == "UNKNOWN"
PENDING == "PENDING"
PROCESSING == "PROCESSING"
PARTIALLY_AVAILABLE == "PARTIALLY_AVAILABLE"
AVAILABLE == "AVAILABLE"
DELETED == "DELETED"

MediaStatus == {UNKNOWN, PENDING, PROCESSING, PARTIALLY_AVAILABLE, AVAILABLE, DELETED}

MOVIE == "movie"
TV == "tv"

Present == {AVAILABLE, PARTIALLY_AVAILABLE}
Terminal == {DELETED, UNKNOWN}

VARIABLES
  impl,                \* "part" or "lib": the revision of the class
  settings,            \* getSettings(): [radarr, sonarr], lists of servers
  ext,                 \* what the remote services answer (fixed in a behaviour)
  env,                 \* what the callers of the engine may do
  db,                  \* the Media table, one row per id
  running,             \* this.running
  plexClient,          \* this.plexClient is set
  plexSeasonsCache,    \* this.plexSeasonsCache
  sonarrSeasonsCache,  \* this.sonarrSeasonsCache
  radarrServers,       \* this.radarrServers
  sonarrServers,       \* this.sonarrServers
  runs,                \* the run() invocations
  tasks,               \* mediaUpdater calls nobody awaits
  populated,           \* for each cache entry, how many runs had begun when it was stored (history)
  requests,            \* the MediaRequest and SeasonRequest tables, the AfterUpdate hooks under way
  step                 \* what the last step did (history)

vars == <<impl, settings, ext, env, db, running, plexClient, plexSeasonsCache,
          sonarrSeasonsCache, radarrServers, sonarrServers, runs, tasks,
          populated, requests, step>>

\* what the engine reads and never writes
world == <<impl, settings, ext, env, requests>>

Runs == 1..MaxRuns

\* ------------------------------------------------------------- sequences
RECURSIVE SelectSeq2(_, _)
SelectSeq2(s, keep) ==
  IF s = <<>> THEN <<>>
  ELSE IF keep[Head(s)] THEN <<Head(s)>> \o SelectSeq2(Tail(s), keep)
       ELSE SelectSeq2(Tail(s), keep)

RemoveAt(s, i) == SubSeq(s, 1, i - 1) \o SubSeq(s, i + 1, Len(s))

Min(a, b) == IF a < b THEN a ELSE b

\* --------------------------------------------------------------- entities
\* The rating key and the external service id of media id, per variant.
KeyOf(id, is4k) == <<id, is4k>>

\* A Season entity.
Season(n, st, st4k) == [seasonNumber |-> n, status |-> st, status4k |-> st4k]

\* A Media entity. seasonObj is the store of Season objects and seasons the
\* array media.seasons of references into it (the code appends a season
\* that the array already holds).
Media(id, type, st, st4k, rk, rk4k, svc, svc4k, objs) ==
  [id |-> id, mediaType |-> type,
   status |-> st, status4k |-> st4k,
   serviceId |-> IF svc THEN <<0>> ELSE Null,
   serviceId4k |-> IF svc4k THEN <<1>> ELSE Null,
   externalServiceId |-> IF svc THEN KeyOf(id, FALSE) ELSE Null,
   externalServiceId4k |-> IF svc4k THEN KeyOf(id, TRUE) ELSE Null,
   externalServiceSlug |-> IF svc THEN <<"slug">> ELSE Null,
   externalServiceSlug4k |-> IF svc4k THEN <<"slug4k">> ELSE Null,
   ratingKey |-> IF rk THEN KeyOf(id, FALSE) ELSE Null,
   ratingKey4k |-> IF rk4k THEN KeyOf(id, TRUE) ELSE Null,
   seasonObj |-> objs,
   seasons |-> [i \in 1..Len(objs) |-> i]]

StatusOf(m, is4k) == IF is4k THEN m.status4k ELSE m.status

Linkage(m, is4k) ==
  IF is4k
  THEN <<m.serviceId4k, m.externalServiceId4k, m.externalServiceSlug4k, m.ratingKey4k>>
  ELSE <<m.serviceId, m.externalServiceId, m.externalServiceSlug, m.ratingKey>>

Unset == <<Null, Null, Null, Null>>

\* The row that mediaRepository.save writes for an entity: its columns and
\* one Season row per season of the store.
Row(m) == [m EXCEPT !.seasons = [i \in 1..Len(m.seasonObj) |-> i]]


\* ------------------------------------------------------ remote services
\* ext.plex[key]        answer of plexClient.getMetadata(key)
\* ext.children[key]    answer of plexClient.getChildrenMetadata(key)
\* ext.radarr[<<s,k>>]  answer of server s to getMovie({id: k})
\* ext.sonarr[<<s,k>>]  answer of server s to getSeriesById(k)
\* ext.approved[<<id,is4k>>]  an APPROVED request exists for the media
PlexAnswers == {"found", "notfound", "error"}
RadarrAnswers == {"file", "nofile", "error"}

\* settings.radarr / settings.sonarr entries
Server(id, is4k, enabled) == [id |-> id, is4k |-> is4k, syncEnabled |-> enabled]

\* settings.x.filter((server) => server.syncEnabled)
SyncEnabled(servers) == SelectSeq2(servers, [s \in {servers[i] : i \in 1..Len(servers)} |-> s.syncEnabled])

\* ------------------------------------------------- the step's context
\* The state one record's processing reads and writes: the entity, the
\* table, the two caches, the mediaUpdater calls it leaves behind, the
\* saves it has issued and the rows they wrote, the remote calls it made
\* (seriesCalls: how many of them mediaExistsInSonarr made).
NewCtx(media) ==
  [media |-> media, db |-> db,
   plexCache |-> plexSeasonsCache, sonarrCache |-> sonarrSeasonsCache,
   spawned |-> <<>>, nsaves |-> 0, saved |-> <<>>, calls |-> <<>>, seriesCalls |-> 0]

\* await mediaRepository.save(...): the row is written, or the save throws
\* (fails holds the ordinals, within the step, of the saves that throw).
Save(c, fails) ==
  LET n == c.nsaves + 1
  IN IF n \in fails
     THEN [c |-> [c EXCEPT !.nsaves = n], ok |-> FALSE]
     ELSE [c |-> [c EXCEPT !.nsaves = n,
                           !.saved = Append(@, Row(c.media)),
                           !.db = [@ EXCEPT ![c.media.id] = Row(c.media)]],
           ok |-> TRUE]

\* findMediaStatus: an APPROVED request of the media for this variant
findMediaStatus(media, is4k) == ext.approved[<<media.id, is4k>>]

\* The assignments of mediaUpdater and of run(): status DELETED, and the
\* four linkage columns null unless isMediaProcessing.
SetDeletedKeepsRatingKey(m, is4k, isMediaProcessing) ==
  IF is4k
  THEN [m EXCEPT !.status4k = DELETED,
                 !.serviceId4k = IF isMediaProcessing THEN @ ELSE Null,
                 !.externalServiceId4k = IF isMediaProcessing THEN @ ELSE Null,
                 !.externalServiceSlug4k = IF isMediaProcessing THEN @ ELSE Null]
  ELSE [m EXCEPT !.status = DELETED,
                 !.serviceId = IF isMediaProcessing THEN @ ELSE Null,
                 !.externalServiceId = IF isMediaProcessing THEN @ ELSE Null,
                 !.externalServiceSlug = IF isMediaProcessing THEN @ ELSE Null]

SetDeleted(m, is4k, isMediaProcessing) ==
  IF is4k
  THEN [m EXCEPT !.status4k = DELETED,
                 !.serviceId4k = IF isMediaProcessing THEN @ ELSE Null,
                 !.externalServiceId4k = IF isMediaProcessing THEN @ ELSE Null,
                 !.externalServiceSlug4k = IF isMediaProcessing THEN @ ELSE Null,
                 !.ratingKey4k = IF isMediaProcessing THEN @ ELSE Null]
  ELSE [m EXCEPT !.status = DELETED,
                 !.serviceId = IF isMediaProcessing THEN @ ELSE Null,
                 !.externalServiceId = IF isMediaProcessing THEN @ ELSE Null,
                 !.externalServiceSlug = IF isMediaProcessing THEN @ ELSE Null,
                 !.ratingKey = IF isMediaProcessing THEN @ ELSE Null]

\* A mediaUpdater call left behind: stage "query" waits for
\* findMediaStatus, stage "save" for mediaRepository.save.
Task(r, stage, is4k, media) == [run |-> r, stage |-> stage, is4k |-> is4k, media |-> media]

\* ------------------------------------------------ revision "part": movies
\* mediaUpdater(media, is4k), called without await. A movie is updated at
\* once and its save left pending; a series first awaits findMediaStatus,
\* so even its assignments happen later (UpdaterQuery).
mediaUpdater(c, is4k, r) ==
  IF c.media.mediaType = TV
  THEN [c EXCEPT !.spawned = Append(@, Task(r, "query", is4k, c.media))]
  ELSE LET m == SetDeleted(c.media, is4k, FALSE)
       IN [c EXCEPT !.media = m,
                    !.spawned = Append(@, Task(r, "save", is4k, m))]

\* The loop over this.radarrServers: acc.radarr and acc.radarr4k are the
\* variables radarr and radarr4k ("undefined", or the movie's hasFile).
RECURSIVE radarrLoop(_, _, _)
radarrLoop(servers, media, acc) ==
  IF servers = <<>> THEN acc
  ELSE LET server == Head(servers)
           id == IF server.is4k THEN media.externalServiceId4k ELSE media.externalServiceId
           ans == IF id = Null THEN "skip" ELSE ext.radarr[<<server.id, id>>]
           calls == IF id = Null THEN acc.calls
                    ELSE Append(acc.calls, <<"getMovie", server.id, id>>)
           next == IF ans \in {"skip", "error"} THEN [acc EXCEPT !.calls = calls]
                   ELSE IF server.is4k THEN [acc EXCEPT !.radarr4k = ans, !.calls = calls]
                   ELSE [acc EXCEPT !.radarr = ans, !.calls = calls]
       IN radarrLoop(Tail(servers), media, next)

mediaExistsInRadarr(c, existsInPlex, existsInPlex4k, r) ==
  LET Result(c2, movieExists, movieExists4k) ==
        [c |-> c2, v |-> movieExists \/ movieExists4k,
         exists |-> movieExists, exists4k |-> movieExists4k]
      Lost4k(c1, movieExists, movieExists4k) ==
        Result(IF movieExists /\ ~movieExists4k /\ c1.media.status4k = AVAILABLE
               THEN mediaUpdater(c1, TRUE, r) ELSE c1,
               movieExists, movieExists4k)
      Lost(c0, movieExists, movieExists4k) ==
        Lost4k(IF ~movieExists /\ movieExists4k /\ c0.media.status = AVAILABLE
               THEN mediaUpdater(c0, FALSE, r) ELSE c0,
               movieExists, movieExists4k)
      After(got) ==
        Lost([c EXCEPT !.calls = got.calls],
             ~((got.radarr # "file") /\ ~existsInPlex),
             ~((got.radarr4k # "file") /\ ~existsInPlex4k))
  IN After(radarrLoop(radarrServers, c.media,
                      [radarr |-> "undefined", radarr4k |-> "undefined",
                       calls |-> c.calls]))


\* ------------------------------------------------ revision "part": series
\* A getSeriesById answer is Throws (the call throws) or a Series with
\* statistics.episodeFileCount and seasons, seasons[n] saying how season n
\* is listed: "absent" (no entry), "nostats" (an entry without statistics),
\* "zero" (statistics.episodeFileCount = 0) or "files" (more than 0).
SeasonListings == {"absent", "nostats", "zero", "files"}

Series(count, seasons) == [kind |-> "series", episodeFileCount |-> count, seasons |-> seasons]

Throws == [kind |-> "error"]

Skipped == [kind |-> "skip"]

\* a variable that holds undefined, and one that holds a value
Undefined == [kind |-> "undefined"]

Defined(v) == [kind |-> "value", val |-> v]

Cached(cache, key) == key \in DOMAIN cache

Put(cache, key, val) == [k \in DOMAIN cache \cup {key} |-> IF k = key THEN val ELSE cache[k]]

\* The loop over this.sonarrServers of mediaExistsInSonarr: acc.sonarr and
\* acc.sonarr4k are the variables sonarr and sonarr4k.
RECURSIVE sonarrLoop(_, _, _)
sonarrLoop(servers, media, acc) ==
  IF servers = <<>> THEN acc
  ELSE LET server == Head(servers)
           id == IF server.is4k THEN media.externalServiceId4k ELSE media.externalServiceId
           key == <<server.id, id>>
           ans == IF id = Null THEN Skipped ELSE ext.sonarr[key]
           calls == IF id = Null THEN acc.calls
                    ELSE Append(acc.calls, <<"getSeriesById", server.id, id>>)
           next == IF ans.kind \in {"skip", "error"} THEN [acc EXCEPT !.calls = calls]
                   ELSE IF server.is4k
                        THEN [acc EXCEPT !.sonarr4k = ans, !.calls = calls,
                                         !.cache = Put(@, key, ans.seasons)]
                        ELSE [acc EXCEPT !.sonarr = ans, !.calls = calls,
                                         !.cache = Put(@, key, ans.seasons)]
       IN sonarrLoop(Tail(servers), media, next)

\* The loop over this.sonarrServers of seasonExistsInSonarr: the cache is
\* read first, getSeriesById is called on a miss.
RECURSIVE seasonLoop(_, _, _, _, _)
seasonLoop(servers, media, showExists, showExists4k, acc) ==
  IF servers = <<>> THEN acc
  ELSE LET server == Head(servers)
           id == IF server.is4k THEN media.externalServiceId4k ELSE media.externalServiceId
           key == <<server.id, id>>
           wanted == id # Null /\ (IF server.is4k THEN showExists4k ELSE showExists)
           hit == wanted /\ Cached(acc.cache, key)
           ans == IF ~wanted THEN Skipped
                  ELSE IF hit THEN [kind |-> "hit"] ELSE ext.sonarr[key]
           calls == IF wanted /\ ~hit
                    THEN Append(acc.calls, <<"getSeriesById", server.id, id>>)
                    ELSE acc.calls
           seasons == IF hit THEN acc.cache[key] ELSE ans.seasons
           next == IF ans.kind \in {"skip", "error"} THEN [acc EXCEPT !.calls = calls]
                   ELSE IF server.is4k
                        THEN [acc EXCEPT !.sonarrSeasons4k = Defined(seasons), !.calls = calls,
                                         !.cache = Put(@, key, seasons)]
                        ELSE [acc EXCEPT !.sonarrSeasons = Defined(seasons), !.calls = calls,
                                         !.cache = Put(@, key, seasons)]
       IN seasonLoop(Tail(servers), media, showExists, showExists4k, next)

\* sonarrSeasons?.find(... seasonNumber equal && statistics?.episodeFileCount === 0)
seasonIsUnavailable(sonarrSeasons, n) ==
  sonarrSeasons # Undefined /\ sonarrSeasons.val[n] = "zero"

SetSeasonStandardOnly(m, ref, st, st4k) ==
  [m EXCEPT !.seasonObj[ref].status = st]

SetSeason(m, ref, st, st4k) ==
  [m EXCEPT !.seasonObj[ref].status = st, !.seasonObj[ref].status4k = st4k]

DemoteBothUntested(m) ==
  [m EXCEPT !.status = IF @ = DELETED THEN @ ELSE PARTIALLY_AVAILABLE,
            !.status4k = IF @ = DELETED THEN @ ELSE PARTIALLY_AVAILABLE]

DemoteBothUnguarded(m) ==
  [m EXCEPT !.status = PARTIALLY_AVAILABLE, !.status4k = PARTIALLY_AVAILABLE]

\* the demotion after the season's save (part_001 lines 513-527)
DemoteBoth(m) ==
  [m EXCEPT !.status = IF @ = AVAILABLE THEN PARTIALLY_AVAILABLE ELSE @,
            !.status4k = IF @ = AVAILABLE THEN PARTIALLY_AVAILABLE ELSE @]

seasonExistsInSonarr(c, ref, inPlex, inPlex4k, showExists, showExists4k, fails) ==
  LET season == c.media.seasonObj[ref]
      Gone(sonarrSeasons) ==
        sonarrSeasons = Undefined \/ seasonIsUnavailable(sonarrSeasons, season.seasonNumber)
      Saved(s) == IF s.ok THEN [s.c EXCEPT !.media = DemoteBoth(@)] ELSE s.c
      Update(c0, st, st4k) ==
        IF st = season.status /\ st4k = season.status4k
        THEN c0
        ELSE Saved(Save([c0 EXCEPT !.media = [SetSeason(@, ref, st, st4k)
                                                EXCEPT !.seasons = Append(@, ref)]],
                        fails))
      After(got) ==
        Update([c EXCEPT !.sonarrCache = got.cache, !.calls = got.calls],
               IF Gone(got.sonarrSeasons) /\ ~inPlex /\ season.status \in Present
               THEN UNKNOWN ELSE season.status,
               IF Gone(got.sonarrSeasons4k) /\ ~inPlex4k /\ season.status4k \in Present
               THEN UNKNOWN ELSE season.status4k)
  IN After(seasonLoop(sonarrServers, c.media, showExists, showExists4k,
                      [sonarrSeasons |-> Undefined, sonarrSeasons4k |-> Undefined,
                       cache |-> c.sonarrCache, calls |-> c.calls]))

\* One of the two try blocks of seasonExists: the season is among the
\* children of the rating key (v: plexSeason is defined). An answer of
\* getChildrenMetadata is Throws, Undefined or Defined(season indexes).
plexSeasonLookup(c, key, wanted, n) ==
  IF ~wanted THEN [c |-> c, v |-> FALSE]
  ELSE IF Cached(c.plexCache, key) THEN [c |-> c, v |-> n \in c.plexCache[key]]
  ELSE LET ans == ext.children[key]
           c0 == [c EXCEPT !.calls = Append(@, <<"getChildrenMetadata", key>>)]
           children == IF ans = Undefined THEN {} ELSE ans.val
       IN IF ans = Throws THEN [c |-> c0, v |-> FALSE]
          ELSE [c |-> [c0 EXCEPT !.plexCache = Put(@, key, children)],
                v |-> n \in children]

seasonExists(c, ref, showExists, showExists4k, fails) ==
  LET n == c.media.seasonObj[ref].seasonNumber
      Both(p, q) ==
        IF p.v /\ q.v THEN q.c
        ELSE seasonExistsInSonarr(q.c, ref, p.v, q.v, showExists, showExists4k, fails)
      Second(p) ==
        Both(p, plexSeasonLookup(p.c, c.media.ratingKey4k,
                                 c.media.ratingKey4k # Null /\ showExists4k, n))
  IN Second(plexSeasonLookup(c, c.media.ratingKey,
                             c.media.ratingKey # Null /\ showExists, n))

\* for (const season of media.seasons): the array the loop started on
RECURSIVE seasonsLoop(_, _, _, _, _)
seasonsLoop(c, refs, showExists, showExists4k, fails) ==
  IF refs = <<>> THEN c
  ELSE seasonsLoop(seasonExists(c, Head(refs), showExists, showExists4k, fails),
                   Tail(refs), showExists, showExists4k, fails)

mediaExistsInSonarr(c, existsInPlex, existsInPlex4k, r, fails) ==
  LET Result(c2, showExists, showExists4k) ==
        [c |-> c2, v |-> showExists \/ showExists4k,
         exists |-> showExists, exists4k |-> showExists4k]
      Lost4k(c1, showExists, showExists4k) ==
        Result(IF showExists /\ ~showExists4k /\ c1.media.status4k \in Present
               THEN mediaUpdater(c1, TRUE, r) ELSE c1,
               showExists, showExists4k)
      Lost(c0, showExists, showExists4k) ==
        Lost4k(IF ~showExists /\ showExists4k /\ c0.media.status \in Present
               THEN mediaUpdater(c0, FALSE, r) ELSE c0,
               showExists, showExists4k)
      Seasons(c0, showExists, showExists4k) ==
        Lost(seasonsLoop(c0, c.media.seasons, showExists, showExists4k, fails),
             showExists, showExists4k)
      After(got) ==
        Seasons([c EXCEPT !.sonarrCache = got.cache, !.calls = got.calls,
                          !.seriesCalls = Len(got.calls) - Len(c.calls)],
                ~((got.sonarr = Undefined \/ got.sonarr.episodeFileCount = 0)
                  /\ ~existsInPlex),
                ~((got.sonarr4k = Undefined \/ got.sonarr4k.episodeFileCount = 0)
                  /\ ~existsInPlex4k))
  IN After(sonarrLoop(sonarrServers, c.media,
                      [sonarr |-> Undefined, sonarr4k |-> Undefined,
                       cache |-> c.sonarrCache, calls |-> c.calls]))

noBaseCase(existsInPlex, existsInPlex4k) == FALSE

\* if (existsInPlex && existsInPlex4k) return true
baseCase(existsInPlex, existsInPlex4k) == existsInPlex /\ existsInPlex4k

\* this.plexClient?.getMetadata(key) in its try: an item came back
getMetadata(key) == key # Null /\ ext.plex[key] = "found"

PlexCalls(c, media) ==
  [c EXCEPT !.calls = @ \o (IF media.ratingKey # Null
                            THEN <<<<"getMetadata", media.ratingKey>>>> ELSE <<>>)
                        \o (IF media.ratingKey4k # Null
                            THEN <<<<"getMetadata", media.ratingKey4k>>>> ELSE <<>>)]

mediaExists(c, r, fails) ==
  LET existsInPlex == getMetadata(c.media.ratingKey)
      existsInPlex4k == getMetadata(c.media.ratingKey4k)
      c0 == PlexCalls(c, c.media)
  IN IF c.media.mediaType = MOVIE
     THEN IF baseCase(existsInPlex, existsInPlex4k)
          THEN [c |-> c0, v |-> TRUE, exists |-> TRUE, exists4k |-> TRUE]
          ELSE mediaExistsInRadarr(c0, existsInPlex, existsInPlex4k, r)
     ELSE mediaExistsInSonarr(c0, existsInPlex, existsInPlex4k, r, fails)

\* One iteration of the loop of run(), after the test of this.running:
\* mediaExists, and when the media is missing completely the two statuses
\* and the save that run() awaits. threw: the save threw out of the loop.
ProcessPart(media, r, fails) ==
  LET Missing(e, s) ==
        [c |-> s.c, threw |-> ~s.ok, exists |-> FALSE, exists4k |-> FALSE]
      Deleted4k(e, m1) ==
        Missing(e, Save([e.c EXCEPT !.media =
                           IF m1.status4k \in Present
                           THEN SetDeleted(m1, TRUE,
                                           m1.mediaType = TV /\ findMediaStatus(m1, TRUE))
                           ELSE m1],
                        fails))
      Deleted(e, m) ==
        Deleted4k(e, IF m.status \in Present
                     THEN SetDeleted(m, FALSE, m.mediaType = TV /\ findMediaStatus(m, FALSE))
                     ELSE m)
      After(e) ==
        IF e.v THEN [c |-> e.c, threw |-> FALSE, exists |-> e.exists, exists4k |-> e.exists4k]
        ELSE Deleted(e, e.c.media)
  IN After(mediaExists(NewCtx(media), r, fails))


\* ------------------------------------------------------- revision "lib"
\* mediaUpdater of the lib revision, called without await: the variant is
\* set to DELETED with its columns null, the AVAILABLE seasons of a series
\* with it, and the save is left pending.
SeasonsDeleted(m, is4k) ==
  [m EXCEPT !.seasonObj =
     [i \in DOMAIN @ |->
        IF is4k
        THEN [@[i] EXCEPT !.status4k = IF @ = AVAILABLE THEN DELETED ELSE @]
        ELSE [@[i] EXCEPT !.status = IF @ = AVAILABLE THEN DELETED ELSE @]]]

mediaUpdaterLib(c, is4k, r) ==
  LET m0 == SetDeleted(c.media, is4k, FALSE)
      m == IF m0.mediaType = TV THEN SeasonsDeleted(m0, is4k) ELSE m0
  IN [c EXCEPT !.media = m, !.spawned = Append(@, Task(r, "save", is4k, m))]

\* The loop over this.radarrServers: acc.existsInRadarr, acc.existsInRadarr4k.
RECURSIVE radarrLoopLib(_, _, _)
radarrLoopLib(servers, media, acc) ==
  IF servers = <<>> THEN acc
  ELSE LET server == Head(servers)
           id == IF server.is4k THEN media.externalServiceId4k ELSE media.externalServiceId
           ans == IF id = Null THEN "undefined" ELSE ext.radarr[<<server.id, id>>]
           calls == IF id = Null THEN acc.calls
                    ELSE Append(acc.calls, <<"getMovie", server.id, id>>)
           next == IF ans = "file" THEN [acc EXCEPT !.calls = calls]
                   ELSE IF server.is4k
                        THEN [acc EXCEPT !.existsInRadarr4k = FALSE, !.calls = calls]
                        ELSE [acc EXCEPT !.existsInRadarr = FALSE, !.calls = calls]
       IN radarrLoopLib(Tail(servers), media, next)

\* The two tests after the loop, the same in mediaExistsInRadarr and in
\* mediaExistsInSonarr of the lib revision.
singleVariantLib(c, inService, inService4k, existsInPlex, existsInPlex4k, r) ==
  LET Result(c2) ==
        [c |-> c2, v |-> inService \/ inService4k \/ existsInPlex \/ existsInPlex4k,
         exists |-> inService \/ existsInPlex, exists4k |-> inService4k \/ existsInPlex4k]
      Lost4k(c1) ==
        Result(IF (inService \/ existsInPlex) /\ ~inService4k /\ ~existsInPlex4k
                  /\ c1.media.status4k \notin Terminal
               THEN mediaUpdaterLib(c1, TRUE, r) ELSE c1)
  IN Lost4k(IF ~inService /\ (inService4k \/ existsInPlex4k) /\ ~existsInPlex
               /\ c.media.status \notin Terminal
            THEN mediaUpdaterLib(c, FALSE, r) ELSE c)

mediaExistsInRadarrLib(c, existsInPlex, existsInPlex4k, r) ==
  LET After(got) ==
        singleVariantLib([c EXCEPT !.calls = got.calls], got.existsInRadarr,
                         got.existsInRadarr4k, existsInPlex, existsInPlex4k, r)
  IN After(radarrLoopLib(radarrServers, c.media,
                         [existsInRadarr |-> TRUE, existsInRadarr4k |-> TRUE,
                          calls |-> c.calls]))

RECURSIVE sonarrLoopLib(_, _, _)
sonarrLoopLib(servers, media, acc) ==
  IF servers = <<>> THEN acc
  ELSE LET server == Head(servers)
           id == IF server.is4k THEN media.externalServiceId4k ELSE media.externalServiceId
           key == <<server.id, id>>
           ans == IF id = Null THEN Undefined ELSE ext.sonarr[key]
           calls == IF id = Null THEN acc.calls
                    ELSE Append(acc.calls, <<"getSeriesById", server.id, id>>)
           cache == IF ans.kind = "series" THEN Put(acc.cache, key, ans.seasons)
                    ELSE acc.cache
           there == ans.kind = "series" /\ ans.episodeFileCount # 0
           next == IF there THEN [acc EXCEPT !.calls = calls, !.cache = cache]
                   ELSE IF server.is4k
                        THEN [acc EXCEPT !.existsInSonarr4k = FALSE, !.calls = calls,
                                         !.cache = cache]
                        ELSE [acc EXCEPT !.existsInSonarr = FALSE, !.calls = calls,
                                         !.cache = cache]
       IN sonarrLoopLib(Tail(servers), media, next)

mediaExistsInSonarrLib(c, existsInPlex, existsInPlex4k, r) ==
  LET After(got) ==
        singleVariantLib([c EXCEPT !.calls = got.calls, !.sonarrCache = got.cache,
                                   !.seriesCalls = Len(got.calls) - Len(c.calls)],
                         got.existsInSonarr, got.existsInSonarr4k,
                         existsInPlex, existsInPlex4k, r)
  IN After(sonarrLoopLib(sonarrServers, c.media,
                         [existsInSonarr |-> TRUE, existsInSonarr4k |-> TRUE,
                          cache |-> c.sonarrCache, calls |-> c.calls]))

\* The two getMetadata calls share one try: when the first throws, the
\* second is not made.
mediaExistsLib(c, r) ==
  LET rk == c.media.ratingKey
      rk4k == c.media.ratingKey4k
      Both(first, second, c0) ==
        IF baseCase(first = "found", second = "found")
        THEN [c |-> c0, v |-> TRUE, exists |-> TRUE, exists4k |-> TRUE]
        ELSE IF c.media.mediaType = MOVIE
             THEN mediaExistsInRadarrLib(c0, first = "found", second = "found", r)
             ELSE mediaExistsInSonarrLib(c0, first = "found", second = "found", r)
      Second(first) ==
        Both(first,
             IF rk4k = Null \/ first = "error" THEN "skip" ELSE ext.plex[rk4k],
             [c EXCEPT !.calls = @ \o (IF rk # Null THEN <<<<"getMetadata", rk>>>> ELSE <<>>)
                                   \o (IF rk4k # Null /\ first # "error"
                                       THEN <<<<"getMetadata", rk4k>>>> ELSE <<>>)])
  IN Second(IF rk = Null THEN "skip" ELSE ext.plex[rk])

\* The loop over this.sonarrServers of seasonExistsInSonarr (lib).
RECURSIVE seasonLoopLib(_, _, _, _)
seasonLoopLib(servers, media, n, acc) ==
  IF servers = <<>> THEN acc
  ELSE LET server == Head(servers)
           id == IF server.is4k THEN media.externalServiceId4k ELSE media.externalServiceId
           key == <<server.id, id>>
           hit == Cached(acc.cache, key)
           ans == IF id = Null THEN Skipped
                  ELSE IF hit THEN [kind |-> "hit"] ELSE ext.sonarr[key]
           calls == IF id # Null /\ ~hit
                    THEN Append(acc.calls, <<"getSeriesById", server.id, id>>)
                    ELSE acc.calls
           sonarrSeasons == IF ans.kind = "hit" THEN Defined(acc.cache[key])
                            ELSE IF ans.kind = "series" THEN Defined(ans.seasons)
                            ELSE Undefined
           cache == IF sonarrSeasons = Undefined THEN acc.cache
                    ELSE Put(acc.cache, key, sonarrSeasons.val)
           gone == ans.kind = "error" \/ seasonIsUnavailable(sonarrSeasons, n)
           next == IF ~gone THEN [acc EXCEPT !.calls = calls, !.cache = cache]
                   ELSE IF server.is4k
                        THEN [acc EXCEPT !.seasonExistsInSonarr4k = FALSE,
                                         !.calls = calls, !.cache = cache]
                        ELSE [acc EXCEPT !.seasonExistsInSonarr = FALSE,
                                         !.calls = calls, !.cache = cache]
       IN seasonLoopLib(Tail(servers), media, n, next)

seasonExistsInSonarrLib(c, ref, inPlex, inPlex4k, fails) ==
  LET season == c.media.seasonObj[ref]
      Result(c0, s, inSonarr, inSonarr4k) ==
        [c |-> IF ~inSonarr \/ ~inSonarr4k THEN s.c ELSE c0,
         v |-> inSonarr \/ inSonarr4k \/ inPlex \/ inPlex4k]
      Saved(c0, inSonarr, inSonarr4k) ==
        Result(c0, Save([c0 EXCEPT !.media.seasons = Append(@, ref)], fails),
               inSonarr, inSonarr4k)
      Lost4k(got, m1, inSonarr, inSonarr4k) ==
        Saved([c EXCEPT !.sonarrCache = got.cache, !.calls = got.calls,
                        !.media =
                          IF (inSonarr \/ inPlex) /\ ~inSonarr4k /\ ~inPlex4k
                             /\ season.status4k \notin Terminal
                          THEN [SetSeason(m1, ref, m1.seasonObj[ref].status, DELETED)
                                  EXCEPT !.status4k =
                                    IF @ = AVAILABLE THEN PARTIALLY_AVAILABLE ELSE @]
                          ELSE m1],
              inSonarr, inSonarr4k)
      Lost(got, inSonarr, inSonarr4k) ==
        Lost4k(got,
               IF ~inSonarr /\ (inSonarr4k \/ inPlex4k) /\ ~inPlex
                  /\ season.status \notin Terminal
               THEN [SetSeason(c.media, ref, DELETED, season.status4k)
                       EXCEPT !.status = IF @ = AVAILABLE THEN PARTIALLY_AVAILABLE ELSE @]
               ELSE c.media,
               inSonarr, inSonarr4k)
      After(got) == Lost(got, got.seasonExistsInSonarr, got.seasonExistsInSonarr4k)
  IN After(seasonLoopLib(sonarrServers, c.media, season.seasonNumber,
                         [seasonExistsInSonarr |-> TRUE, seasonExistsInSonarr4k |-> TRUE,
                          cache |-> c.sonarrCache, calls |-> c.calls]))

\* The two child listings share one try: when the first lookup throws, the
\* second is not made.
seasonExistsLib(c, ref, fails) ==
  LET n == c.media.seasonObj[ref].seasonNumber
      rk == c.media.ratingKey
      rk4k == c.media.ratingKey4k
      threw == rk # Null /\ ~Cached(c.plexCache, rk) /\ ext.children[rk] = Throws
      Both(p, q) ==
        IF p.v /\ q.v THEN [c |-> q.c, v |-> TRUE]
        ELSE seasonExistsInSonarrLib(q.c, ref, p.v, q.v, fails)
      Second(p) == Both(p, plexSeasonLookup(p.c, rk4k, rk4k # Null /\ ~threw, n))
  IN Second(plexSeasonLookup(c, rk, rk # Null, n))

BothAre(a, b, st) == a = st /\ b = st

\* The body of for (const season of media.seasons) in run() (lib); acc.did
\* is didDeleteSeasons.
RECURSIVE runSeasonsLib(_, _, _, _)
runSeasonsLib(acc, refs, exists, fails) ==
  IF refs = <<>> THEN acc
  ELSE LET ref == Head(refs)
           season == acc.c.media.seasonObj[ref]
           open == ~BothAre(season.status, season.status4k, DELETED)
                   /\ ~BothAre(season.status, season.status4k, UNKNOWN)
           Open(after) == ~BothAre(after.status, after.status4k, DELETED)
                          /\ ~BothAre(after.status, after.status4k, UNKNOWN)
           Demoted(c1, did) ==
             [c |-> IF did THEN [c1 EXCEPT !.media = DemoteBoth(@)] ELSE c1, did |-> did]
           Checked(e) ==
             Demoted(IF ~e.v /\ Open(e.c.media.seasonObj[ref])
                     THEN [e.c EXCEPT !.media = SetSeason(@, ref, DELETED, DELETED)]
                     ELSE e.c,
                     acc.did \/ ~e.v)
           One ==
             IF ~exists /\ open
             THEN Demoted([acc.c EXCEPT !.media = SetSeason(@, ref, DELETED, DELETED)],
                          acc.did)
             ELSE Checked(seasonExistsLib(acc.c, ref, fails))
       IN runSeasonsLib(One, Tail(refs), exists, fails)

\* One iteration of the loop of run() (lib), after the test of
\* this.running. threw: the save run() awaits threw out of the loop.
ProcessLib(media, r, fails) ==
  LET Result(e, t, s) ==
        IF ~e.v \/ t.did
        THEN [c |-> s.c, threw |-> ~s.ok, exists |-> e.exists, exists4k |-> e.exists4k]
        ELSE [c |-> t.c, threw |-> FALSE, exists |-> e.exists, exists4k |-> e.exists4k]
      Saved(e, t) == Result(e, t, Save(t.c, fails))
      Seasons(e, m, c1) ==
        Saved(e, IF m.mediaType = TV
                 THEN runSeasonsLib([c |-> c1, did |-> FALSE], m.seasons, e.v, fails)
                 ELSE [c |-> c1, did |-> FALSE])
      Deleted(e, m) ==
        Seasons(e, m,
                [e.c EXCEPT !.media =
                   IF ~e.v /\ ~BothAre(m.status, m.status4k, DELETED)
                      /\ ~BothAre(m.status, m.status4k, UNKNOWN)
                   THEN [SetDeleted(SetDeleted(m, FALSE, FALSE), TRUE, FALSE)
                           EXCEPT !.status = IF m.status # UNKNOWN THEN DELETED ELSE UNKNOWN,
                                  !.status4k = IF m.status4k # UNKNOWN THEN DELETED
                                               ELSE UNKNOWN]
                   ELSE m])
      After(e) == Deleted(e, e.c.media)
  IN After(mediaExistsLib(NewCtx(media), r))


\* ------------------------------------------------------------ the table
\* where: status or status4k is AVAILABLE or PARTIALLY_AVAILABLE
Eligible(row) == row.status \in Present \/ row.status4k \in Present

EligibleIds(table) == {i \in DOMAIN table : Eligible(table[i])}

RECURSIVE Ascending(_)
Ascending(ids) ==
  IF ids = {} THEN <<>>
  ELSE LET lo == CHOOSE i \in ids : \A j \in ids : i <= j
       IN <<lo>> \o Ascending(ids \ {lo})

\* mediaRepository.find({where, skip, take}): the rows, in the order of
\* their ids, that match the filter now
Find(table, skip, take) ==
  LET ids == Ascending(EligibleIds(table))
  IN [i \in 1..Min(take, IF Len(ids) > skip THEN Len(ids) - skip ELSE 0) |->
        table[ids[skip + i]]]

\* ------------------------------------------------------------ run state
\* pc: "idle" (not called yet), "init" (awaits initPlexClient), "fetch"
\* (awaits find), "take" (the generator yields), "process" (awaits
\* mediaExists), "done". outcome, error: what the catch and the finally
\* logged. The other fields are history (adminMissing: initPlexClient
\* found no admin and the run went on).
IdleRun ==
  [pc |-> "idle", offset |-> 0, page |-> <<>>, outcome |-> "none", error |-> "none",
   cancelled |-> FALSE, overlapped |-> FALSE, afterCancel |-> FALSE, unsettled |-> FALSE,
   eligible0 |-> {}, examined |-> {}, issued |-> 0, adminMissing |-> FALSE]

Active(r) == runs[r].pc \notin {"idle", "done"}

ActiveRuns == {r \in Runs : Active(r)}

NoStep == [act |-> "none", run |-> 0]

FinishEarlyKeepsGuard(r, outcome, error) ==
  /\ running' = IF outcome = "skipped" THEN running ELSE FALSE
  /\ runs' = [runs EXCEPT ![r].pc = "done", ![r].outcome = outcome,
                          ![r].error = error, ![r].page = <<>>]

FinishStaysRunning(r, outcome, error) ==
  /\ UNCHANGED running
  /\ runs' = [runs EXCEPT ![r].pc = "done", ![r].outcome = outcome,
                          ![r].error = error, ![r].page = <<>>]

\* finally { this.running = false }, after the catch logged the error
Finish(r, outcome, error) ==
  /\ running' = FALSE
  /\ runs' = [runs EXCEPT ![r].pc = "done", ![r].outcome = outcome,
                          ![r].error = error, ![r].page = <<>>]

\* --------------------------------------------------------------- worlds
\* The initial states: a revision, the settings, the answers of the remote
\* services and the rows of the table.
Impls == {"part", "lib"}

\* The callers: run() may be called while a run is active (overlap),
\* cancel() may be called (cancel), the admin user may be missing
\* (noAdmin), a save may throw (faults). Calm callers call run() on an
\* idle engine only, and the database takes every save; eager callers
\* call run() at any time and do nothing else.
AnyCallers == [overlap |-> TRUE, cancel |-> TRUE, noAdmin |-> TRUE, faults |-> TRUE]

EagerCallers == [overlap |-> TRUE, cancel |-> FALSE, noAdmin |-> FALSE, faults |-> FALSE]

CalmCallers == [overlap |-> FALSE, cancel |-> FALSE, noAdmin |-> FALSE, faults |-> FALSE]

FaultyDatabase == [overlap |-> FALSE, cancel |-> FALSE, noAdmin |-> FALSE, faults |-> TRUE]

ServerIds == {0, 1, 2}

Bools == {TRUE, FALSE}

\* the answers of a service that is asked about a column that is set
AnswersIf(set, answers, other) == IF set THEN answers ELSE {other}

\* the servers of settings.radarr and settings.sonarr: a standard server
\* 0, a 4k server 1, a second standard server 2
ServerConfigs ==
  { <<>>,
    <<Server(0, FALSE, TRUE)>>,
    <<Server(1, TRUE, TRUE)>>,
    <<Server(0, FALSE, TRUE), Server(1, TRUE, TRUE)>>,
    <<Server(0, FALSE, TRUE), Server(2, FALSE, TRUE)>>,
    <<Server(0, FALSE, FALSE), Server(1, TRUE, TRUE)>> }

Asked(cfg, id, is4k) ==
  \E i \in 1..Len(cfg) : cfg[i].id = id /\ cfg[i].syncEnabled /\ cfg[i].is4k = is4k

Keys(ids) == {KeyOf(i, b) : i \in ids, b \in Bools}

NoSeries(ids) == [k \in ServerIds \X Keys(ids) |-> Throws]

NoMovies(ids) == [k \in ServerIds \X Keys(ids) |-> "error"]

NoChildren(ids) == [k \in Keys(ids) |-> Undefined]

NoRequests(ids) == [k \in ids \X Bools |-> FALSE]

Both == <<Server(0, FALSE, TRUE), Server(1, TRUE, TRUE)>>

\* what the servers of cfg answer about one title: the answers of the
\* servers that are asked (a server of the variant, with the column set)
ServerAnswers(cfg, svc, svc4k, answers, other) ==
  { [k \in ServerIds \X Keys({1}) |->
       IF k[1] = 0 THEN a0 ELSE IF k[1] = 1 THEN a1 ELSE a2] :
    a0 \in AnswersIf(svc /\ Asked(cfg, 0, FALSE), answers, other),
    a1 \in AnswersIf(svc4k /\ Asked(cfg, 1, TRUE), answers, other),
    a2 \in AnswersIf(svc /\ Asked(cfg, 2, FALSE), answers, other) }

PlexFor(rk, rk4k, answers) ==
  { [k \in Keys({1}) |-> IF k[2] THEN p4k ELSE p] :
    p \in AnswersIf(rk, answers, "notfound"),
    p4k \in AnswersIf(rk4k, answers, "notfound") }

MovieWorld(i, e, cfg, st, st4k, rk, rk4k, svc, svc4k, px, ra) ==
  [impl |-> i,
   settings |-> [radarr |-> cfg, sonarr |-> <<>>],
   ext |-> [plex |-> px, children |-> NoChildren({1}), radarr |-> ra,
            sonarr |-> NoSeries({1}), approved |-> NoRequests({1})],
   env |-> e,
   db |-> <<Media(1, MOVIE, st, st4k, rk, rk4k, svc, svc4k, <<>>)>>]

\* the engine starts in world w
InWorld(w) ==
  /\ impl = w.impl
  /\ settings = w.settings
  /\ ext = w.ext
  /\ env = w.env
  /\ db = w.db

\* One movie with every column set, in every pair of statuses, under every
\* configuration of servers, each service having the title or not.
MovieStatusWorlds ==
  \E i \in Impls, cfg \in ServerConfigs, st \in MediaStatus, st4k \in MediaStatus :
    \E px \in PlexFor(TRUE, TRUE, {"found", "notfound"}),
       ra \in ServerAnswers(cfg, TRUE, TRUE, {"file", "nofile"}, "error") :
      InWorld(MovieWorld(i, CalmCallers, cfg, st, st4k, TRUE, TRUE, TRUE, TRUE, px, ra))

StatusPairs ==
  { <<AVAILABLE, AVAILABLE>>, <<AVAILABLE, UNKNOWN>>,
    <<PARTIALLY_AVAILABLE, AVAILABLE>>, <<DELETED, AVAILABLE>> }

LinkConfigs == {<<>>, Both, <<Server(0, FALSE, TRUE), Server(2, FALSE, TRUE)>>}

\* One movie with any of its columns set, the services answering, failing
\* or not knowing the title; a save may throw.
MovieLinkWorlds ==
  \E i \in Impls, sts \in StatusPairs, cfg \in LinkConfigs,
     l \in Bools \X Bools \X Bools \X Bools :
    \E px \in PlexFor(l[1], l[2], PlexAnswers),
       ra \in ServerAnswers(cfg, l[3], l[4], RadarrAnswers, "error") :
      InWorld(MovieWorld(i, FaultyDatabase, cfg, sts[1], sts[2],
                         l[1], l[2], l[3], l[4], px, ra))

SeasonNumbers == 1..NumSeasons

SeriesWorld(i, e, cfg, sts, l, px, ch, so, ap, objs) ==
  [impl |-> i,
   settings |-> [radarr |-> <<>>, sonarr |-> cfg],
   ext |-> [plex |-> px, children |-> ch, radarr |-> NoMovies({1}),
            sonarr |-> so, approved |-> ap],
   env |-> e,
   db |-> <<Media(1, TV, sts[1], sts[2], l[1], l[2], l[3], l[4], objs)>>]

AllListed(how) == [n \in SeasonNumbers |-> how]

AllAvailable == [n \in SeasonNumbers |-> Season(n, AVAILABLE, AVAILABLE)]

\* getSeriesById of a server: it throws, or the series has no file, or it
\* has files in every season
SeriesAnswers == {Throws, Series(0, AllListed("zero")), Series(1, AllListed("files"))}

SonarrAnswers(cfg, svc, svc4k, answers) ==
  { [k \in ServerIds \X Keys({1}) |->
       IF k[1] = 0 THEN a0 ELSE IF k[1] = 1 THEN a1 ELSE a2] :
    a0 \in AnswersIf(svc /\ Asked(cfg, 0, FALSE), answers, Throws),
    a1 \in AnswersIf(svc4k /\ Asked(cfg, 1, TRUE), answers, Throws),
    a2 \in AnswersIf(svc /\ Asked(cfg, 2, FALSE), answers, Throws) }

Requests == { [k \in {1} \X Bools |-> IF k[2] THEN b4k ELSE b] : b \in Bools, b4k \in Bools }

All == <<TRUE, TRUE, TRUE, TRUE>>

SeasonPairs ==
  { <<AVAILABLE, AVAILABLE>>, <<AVAILABLE, UNKNOWN>>, <<PARTIALLY_AVAILABLE, DELETED>> }

SeasonWorld(i, e, sts, p, kids, listing, a1, pairs) ==
  SeriesWorld(i, e, Both, sts, All,
              [k \in Keys({1}) |-> IF k[2] THEN "notfound" ELSE p],
              [k \in Keys({1}) |-> IF k[2] THEN Undefined ELSE Defined(kids)],
              [k \in ServerIds \X Keys({1}) |->
                 IF k[1] = 0 THEN Series(1, listing) ELSE a1],
              NoRequests({1}),
              [n \in SeasonNumbers |-> Season(n, pairs[n][1], pairs[n][2])])

Listings == [SeasonNumbers -> {"zero", "files"}]

\* A series whose seasons are each in one of SeasonPairs, listed by the
\* standard Sonarr with files or with none, the first season among the
\* Plex children or not; the 4k Sonarr has every season, or has files of
\* none of these seasons, or fails.
SeasonWorlds ==
  \E i \in Impls,
     sts \in {<<AVAILABLE, AVAILABLE>>, <<AVAILABLE, UNKNOWN>>,
              <<PARTIALLY_AVAILABLE, AVAILABLE>>},
     p \in {"found", "notfound"}, kids \in {{}, {1}}, listing \in Listings,
     a1 \in {Throws, Series(1, AllListed("files")), Series(1, AllListed("zero"))},
     pairs \in [SeasonNumbers -> SeasonPairs] :
    InWorld(SeasonWorld(i, CalmCallers, sts, p, kids, listing, a1, pairs))

\* The same series when a save may throw.
SeasonFaultWorlds ==
  \E i \in Impls, listing \in Listings :
    InWorld(SeasonWorld(i, FaultyDatabase, <<AVAILABLE, AVAILABLE>>, "found", {}, listing,
                        Throws, [n \in SeasonNumbers |-> <<AVAILABLE, AVAILABLE>>]))

\* A series with every column set and every season AVAILABLE: the show is
\* in a service or not, and may have an approved request.
ShowWorlds ==
  \E i \in Impls,
     sts \in StatusPairs \cup {<<PARTIALLY_AVAILABLE, PARTIALLY_AVAILABLE>>,
                               <<AVAILABLE, PROCESSING>>},
     px \in PlexFor(TRUE, TRUE, {"found", "notfound"}),
     so \in SonarrAnswers(Both, TRUE, TRUE, SeriesAnswers),
     ap \in Requests :
    InWorld(SeriesWorld(i, CalmCallers, Both, sts, All, px,
                        NoChildren({1}), so, ap, AllAvailable))

\* A series held in both variants at series level, every season AVAILABLE:
\* the standard Sonarr lists each season in any of SeasonListings, the first
\* season is among the Plex children or not.
StatisticsWorlds ==
  \E i \in Impls, kids \in {{}, {1}}, listing \in [SeasonNumbers -> SeasonListings] :
    InWorld(SeasonWorld(i, CalmCallers, <<AVAILABLE, AVAILABLE>>, "found", kids, listing,
                        Series(1, AllListed("files")),
                        [n \in SeasonNumbers |-> <<AVAILABLE, AVAILABLE>>]))

\* getChildrenMetadata of a rating key: it throws, or returns nothing, or
\* lists the first season
ChildrenAnswers == {Throws, Undefined, Defined({1})}

\* A series that Plex has in both variants, whose child listings answer
\* in any of these ways.
ListingWorlds ==
  \E i \in Impls, ch \in [Keys({1}) -> ChildrenAnswers],
     so \in SonarrAnswers(Both, TRUE, TRUE, {Throws, Series(1, AllListed("files"))}) :
    InWorld(SeriesWorld(i, CalmCallers, Both, <<AVAILABLE, AVAILABLE>>, All,
                        [k \in Keys({1}) |-> "found"], ch, so,
                        NoRequests({1}), AllAvailable))

\* The same series, listed by Plex or not and held by both Sonarr servers,
\* when run() may be called during a run.
OverlapSeriesWorlds ==
  \E i \in Impls, ch \in [Keys({1}) -> {Undefined, Defined({1})}] :
    \E so \in SonarrAnswers(Both, TRUE, TRUE, {Series(1, AllListed("files"))}) :
      InWorld(SeriesWorld(i, EagerCallers, Both, <<AVAILABLE, AVAILABLE>>, All,
                          [k \in Keys({1}) |-> "found"], ch, so,
                          NoRequests({1}), AllAvailable))

\* A series with any of its columns set, under several settings.
ShowLinkWorlds ==
  \E i \in Impls, cfg \in LinkConfigs, l \in Bools \X Bools \X Bools \X Bools :
    \E px \in PlexFor(l[1], l[2], PlexAnswers),
       so \in SonarrAnswers(cfg, l[3], l[4], SeriesAnswers) :
      InWorld(SeriesWorld(i, CalmCallers, cfg, <<AVAILABLE, AVAILABLE>>, l, px,
                          [k \in Keys({1}) |-> Defined(SeasonNumbers)], so,
                          NoRequests({1}), AllAvailable))

\* A catalogue of NumMedia movies of the standard variant, each one in the
\* standard Radarr with its file or without; the callers do anything.
CatalogueWorlds ==
  \E i \in Impls, there \in {{}, {1}, {NumMedia}, 1..NumMedia} :
    InWorld([impl |-> i,
             settings |-> [radarr |-> Both, sonarr |-> <<>>],
             ext |-> [plex |-> [k \in Keys(1..NumMedia) |-> "notfound"],
                      children |-> NoChildren(1..NumMedia),
                      radarr |-> [k \in ServerIds \X Keys(1..NumMedia) |->
                                    IF k[2][1] \in there THEN "file" ELSE "nofile"],
                      sonarr |-> NoSeries(1..NumMedia),
                      approved |-> NoRequests(1..NumMedia)],
             env |-> AnyCallers,
             db |-> [m \in 1..NumMedia |->
                       Media(m, MOVIE, AVAILABLE, UNKNOWN, TRUE, FALSE, TRUE, FALSE, <<>>)]])

\* A series that is in no service (Plex finds neither key, each Sonarr
\* throws or has no episode file), its seasons each in one of SeasonPairs.
CascadeWorlds ==
  \E i \in Impls,
     sts \in {<<AVAILABLE, AVAILABLE>>, <<AVAILABLE, UNKNOWN>>,
              <<PARTIALLY_AVAILABLE, AVAILABLE>>},
     so \in SonarrAnswers(Both, TRUE, TRUE, {Throws, Series(0, AllListed("zero"))}),
     pairs \in [SeasonNumbers -> SeasonPairs] :
    InWorld(SeriesWorld(i, CalmCallers, Both, sts, All,
                        [k \in Keys({1}) |-> "notfound"], NoChildren({1}), so,
                        NoRequests({1}),
                        [n \in SeasonNumbers |-> Season(n, pairs[n][1], pairs[n][2])]))

\* A movie AVAILABLE in both variants with an APPROVED request for one
\* variant or for both, each service having the title or not.
RequestedMovieWorlds ==
  \E i \in Impls, ap \in Requests \ {NoRequests({1})} :
    \E px \in PlexFor(TRUE, TRUE, {"found", "notfound"}),
       ra \in ServerAnswers(Both, TRUE, TRUE, {"file", "nofile"}, "error") :
      InWorld([MovieWorld(i, CalmCallers, Both, AVAILABLE, AVAILABLE,
                          TRUE, TRUE, TRUE, TRUE, px, ra)
                 EXCEPT !.ext.approved = ap])

\* The answer of a probe that knows nothing of the title, in place of its
\* failure: getMetadata finds nothing, getMovie has no file, the child
\* listing is empty, the series has no episode file.
Absent(probe, a) ==
  CASE probe = "plex" -> IF a = "error" THEN "notfound" ELSE a
    [] probe = "radarr" -> IF a = "error" THEN "nofile" ELSE a
    [] probe = "children" -> IF a = Throws THEN Undefined ELSE a
    [] probe = "sonarr" -> IF a = Throws THEN Series(0, AllListed("zero")) ELSE a

\* the answers about title 1, and about a title 2 for which every probe
\* that fails for title 1 answers Absent
TwinExt(x) ==
  [plex |-> [k \in Keys({1, 2}) |->
               IF k[1] = 1 THEN x.plex[k] ELSE Absent("plex", x.plex[KeyOf(1, k[2])])],
   children |-> [k \in Keys({1, 2}) |->
               IF k[1] = 1 THEN x.children[k]
               ELSE Absent("children", x.children[KeyOf(1, k[2])])],
   radarr |-> [k \in ServerIds \X Keys({1, 2}) |->
               IF k[2][1] = 1 THEN x.radarr[k]
               ELSE Absent("radarr", x.radarr[<<k[1], KeyOf(1, k[2][2])>>])],
   sonarr |-> [k \in ServerIds \X Keys({1, 2}) |->
               IF k[2][1] = 1 THEN x.sonarr[k]
               ELSE Absent("sonarr", x.sonarr[<<k[1], KeyOf(1, k[2][2])>>])],
   approved |-> NoRequests({1, 2})]

\* the same record under another id
Renamed(m, id) ==
  [m EXCEPT !.id = id,
            !.externalServiceId = IF @ = Null THEN Null ELSE KeyOf(id, FALSE),
            !.externalServiceId4k = IF @ = Null THEN Null ELSE KeyOf(id, TRUE),
            !.ratingKey = IF @ = Null THEN Null ELSE KeyOf(id, FALSE),
            !.ratingKey4k = IF @ = Null THEN Null ELSE KeyOf(id, TRUE)]

TwinOf(w) == [w EXCEPT !.ext = TwinExt(w.ext), !.db = <<w.db[1], Renamed(w.db[1], 2)>>]

\* Two records alike, a movie or a series with every column set and both
\* variants AVAILABLE: the probes of the first answer or fail, those of
\* the second answer Absent where the first's fail.
TwinWorlds ==
  \/ \E i \in Impls, cfg \in LinkConfigs :
       \E px \in PlexFor(TRUE, TRUE, PlexAnswers),
          ra \in ServerAnswers(cfg, TRUE, TRUE, RadarrAnswers, "error") :
         InWorld(TwinOf(MovieWorld(i, CalmCallers, cfg, AVAILABLE, AVAILABLE,
                                   TRUE, TRUE, TRUE, TRUE, px, ra)))
  \/ \E i \in Impls, ch \in [Keys({1}) -> {Throws, Defined({1})}] :
       \E px \in PlexFor(TRUE, TRUE, PlexAnswers),
          so \in SonarrAnswers(Both, TRUE, TRUE, {Throws, Series(1, AllListed("files"))}) :
         InWorld(TwinOf(SeriesWorld(i, CalmCallers, Both, <<AVAILABLE, AVAILABLE>>, All,
                                    px, ch, so, NoRequests({1}), AllAvailable)))

\* two servers of the standard variant, and the same two the other way round
TwoStandard == <<Server(0, FALSE, TRUE), Server(2, FALSE, TRUE)>>

Other(id) == IF id = 0 THEN 2 ELSE IF id = 2 THEN 0 ELSE id

\* the answers about title 1, and about a title 2 of which server 0 answers
\* what server 2 answers of title 1, and server 2 what server 0 answers
SwapExt(x) ==
  [plex |-> [k \in Keys({1, 2}) |-> x.plex[KeyOf(1, k[2])]],
   children |-> [k \in Keys({1, 2}) |-> x.children[KeyOf(1, k[2])]],
   radarr |-> [k \in ServerIds \X Keys({1, 2}) |->
               IF k[2][1] = 1 THEN x.radarr[k]
               ELSE x.radarr[<<Other(k[1]), KeyOf(1, k[2][2])>>]],
   sonarr |-> [k \in ServerIds \X Keys({1, 2}) |->
               IF k[2][1] = 1 THEN x.sonarr[k]
               ELSE x.sonarr[<<Other(k[1]), KeyOf(1, k[2][2])>>]],
   approved |-> NoRequests({1, 2})]

SwapOf(w) == [w EXCEPT !.ext = SwapExt(w.ext), !.db = <<w.db[1], Renamed(w.db[1], 2)>>]

\* Two records alike, a movie or a series with every column set and both
\* variants AVAILABLE, under two servers of the standard variant: what the
\* first server answers of one record the second answers of the other.
SwapWorlds ==
  \/ \E i \in Impls :
       \E px \in PlexFor(TRUE, TRUE, {"found", "notfound"}),
          ra \in ServerAnswers(TwoStandard, TRUE, TRUE, RadarrAnswers, "error") :
         InWorld(SwapOf(MovieWorld(i, CalmCallers, TwoStandard, AVAILABLE, AVAILABLE,
                                   TRUE, TRUE, TRUE, TRUE, px, ra)))
  \/ \E i \in Impls :
       \E px \in PlexFor(TRUE, TRUE, {"found", "notfound"}),
          so \in SonarrAnswers(TwoStandard, TRUE, TRUE, SeriesAnswers) :
         InWorld(SwapOf(SeriesWorld(i, CalmCallers, TwoStandard, <<AVAILABLE, AVAILABLE>>,
                                    All, px, NoChildren({1}), so, NoRequests({1}),
                                    AllAvailable)))

MovieWorlds == MovieStatusWorlds \/ MovieLinkWorlds \/ RequestedMovieWorlds

SeriesWorlds ==
  SeasonWorlds \/ SeasonFaultWorlds \/ ShowWorlds \/ ShowLinkWorlds \/ CascadeWorlds
  \/ ListingWorlds \/ OverlapSeriesWorlds \/ StatisticsWorlds

Worlds == CatalogueWorlds \/ MovieWorlds \/ SeriesWorlds \/ TwinWorlds \/ SwapWorlds

\* ----------------------------------------------------------------- Init
\* the field initialisers of the class, no run() called yet
Constructed ==
  /\ running = FALSE
  /\ plexClient = FALSE
  /\ plexSeasonsCache = <<>>
  /\ sonarrSeasonsCache = <<>>
  /\ radarrServers = <<>>
  /\ sonarrServers = <<>>
  /\ runs = [r \in Runs |-> IdleRun]
  /\ tasks = <<>>
  /\ populated = [plex |-> <<>>, sonarr |-> <<>>]
  /\ step = NoStep

\* no request in the tables
NoRequestRows == [status |-> <<>>, seasons |-> <<>>, hooks |-> <<>>]

Init == Worlds /\ Constructed /\ requests = NoRequestRows

\* -------------------------------------------------------------- actions
KeptCache(old) == old

\* this.plexSeasonsCache = {}; this.sonarrSeasonsCache = {};
NewCache(old) == <<>>

\* how many times run() has been entered
Begun(rs) == Cardinality({r \in Runs : rs[r].pc # "idle"})

\* The history of a cache: an entry stored in this step (its remote call
\* is among calls and it is in the cache afterwards) is stamped with the
\* number of runs begun, an entry that was there keeps its stamp.
Stamped(old, cache, stored, now) ==
  [k \in DOMAIN cache |-> IF k \in DOMAIN old /\ k \notin stored THEN old[k] ELSE now]

\* the keys of the remote calls of one kind
CallKeys(calls, kind) ==
  {IF kind = "getChildrenMetadata" THEN calls[i][2] ELSE <<calls[i][2], calls[i][3]>> :
     i \in {j \in DOMAIN calls : calls[j][1] = kind}}

\* run(), up to the await of initPlexClient. Nothing tests this.running.
RunStart(r) ==
  /\ runs[r].pc = "idle"
  /\ \A q \in Runs : q < r => runs[q].pc # "idle"
  /\ env.overlap \/ ActiveRuns = {}
  /\ running' = TRUE
  /\ plexSeasonsCache' = NewCache(plexSeasonsCache)
  /\ sonarrSeasonsCache' = NewCache(sonarrSeasonsCache)
  /\ populated' = [plex |-> Stamped(populated.plex, plexSeasonsCache', {}, Begun(runs')),
                   sonarr |-> Stamped(populated.sonarr, sonarrSeasonsCache', {}, Begun(runs'))]
  /\ radarrServers' = SyncEnabled(settings.radarr)
  /\ sonarrServers' = SyncEnabled(settings.sonarr)
  /\ runs' = [runs EXCEPT ![r].pc = "init", ![r].eligible0 = EligibleIds(db),
                          ![r].overlapped = (ActiveRuns # {}),
                          ![r].unsettled = (tasks # <<>>)]
  /\ step' = [act |-> "RunStart", run |-> r]
  /\ UNCHANGED <<world, db, plexClient, tasks>>

\* initPlexClient returns: with an admin the client is set, without one it
\* is left as it was; run() returns through the finally when it is unset.
RunInit(r) ==
  /\ runs[r].pc = "init"
  /\ \E admin \in (IF env.noAdmin THEN {TRUE, FALSE} ELSE {TRUE}) :
       /\ plexClient' = (plexClient \/ admin)
       /\ IF plexClient'
          THEN /\ runs' = [runs EXCEPT ![r].pc = "fetch", ![r].offset = 0,
                                       ![r].adminMissing = ~admin]
               /\ UNCHANGED running
          ELSE Finish(r, "skipped", "none")
       /\ step' = [act |-> "RunInit", run |-> r, admin |-> admin]
  /\ UNCHANGED <<world, db, plexSeasonsCache, sonarrSeasonsCache, populated, radarrServers,
                 sonarrServers, tasks>>

\* loadAvailableMediaPaginated: find returns a page; an empty page ends the
\* generator, the loop of run() and, through the finally, the run.
Fetch(r) ==
  /\ runs[r].pc = "fetch"
  /\ LET mediaPage == Find(db, runs[r].offset, PageSize)
     IN IF Len(mediaPage) = 0
        THEN Finish(r, "complete", "none")
        ELSE /\ runs' = [runs EXCEPT ![r].pc = "take", ![r].page = mediaPage]
             /\ UNCHANGED running
  /\ step' = [act |-> "Fetch", run |-> r]
  /\ UNCHANGED <<world, db, plexClient, plexSeasonsCache, sonarrSeasonsCache, populated,
                 radarrServers, sonarrServers, tasks>>

\* The generator yields the next record of the page and the loop tests
\* this.running: throw new Error('Job aborted') goes to the catch of run().
Take(r) ==
  /\ runs[r].pc = "take"
  /\ IF ~running
     THEN Finish(r, "failed", "Job aborted")
     ELSE /\ runs' = [runs EXCEPT ![r].pc = "process",
                                  ![r].afterCancel = @ \/ runs[r].cancelled]
          /\ UNCHANGED running
  /\ step' = [act |-> "Take", run |-> r]
  /\ UNCHANGED <<world, db, plexClient, plexSeasonsCache, sonarrSeasonsCache, populated,
                 radarrServers, sonarrServers, tasks>>

MaxSaves(media) == IF media.mediaType = TV THEN Len(media.seasons) + 1 ELSE 1

\* The pending save of mediaUpdater(lib) is given the entity itself, which
\* run() goes on changing: late is the entity as the step left it.
Pending(spawned, final, loaded, exists, exists4k) ==
  [i \in 1..Len(spawned) |->
     [run |-> spawned[i].run, stage |-> spawned[i].stage, is4k |-> spawned[i].is4k,
      media |-> spawned[i].media, origin |-> loaded,
      exists |-> exists, exists4k |-> exists4k,
      late |-> IF impl = "lib" THEN final ELSE spawned[i].media]]

SavesIn(spawned) == Cardinality({i \in 1..Len(spawned) : spawned[i].stage = "save"})

\* await this.mediaExists(media) and the rest of the loop body.
Process(r) ==
  /\ runs[r].pc = "process"
  /\ LET media == Head(runs[r].page)
         rest == Tail(runs[r].page)
     IN \E fails \in SUBSET (1..MaxSaves(media)) :
        \E p \in {IF impl = "lib" THEN ProcessLib(media, r, fails)
                  ELSE ProcessPart(media, r, fails)} :
        \E seen \in {[runs[r] EXCEPT !.examined = @ \cup {media.id},
                                     !.issued = @ + p.c.nsaves + SavesIn(p.c.spawned)]} :
          /\ fails \subseteq 1..p.c.nsaves
          /\ env.faults \/ fails = {}
          /\ db' = p.c.db
          /\ plexSeasonsCache' = p.c.plexCache
          /\ sonarrSeasonsCache' = p.c.sonarrCache
          /\ populated' =
               [plex |-> Stamped(populated.plex, plexSeasonsCache',
                                 CallKeys(p.c.calls, "getChildrenMetadata"), Begun(runs)),
                sonarr |-> Stamped(populated.sonarr, sonarrSeasonsCache',
                                   CallKeys(p.c.calls, "getSeriesById"), Begun(runs))]
          /\ tasks' = tasks \o Pending(p.c.spawned, p.c.media, media, p.exists, p.exists4k)
          /\ step' = [act |-> "Process", run |-> r, before |-> media,
                      after |-> p.c.media, exists |-> p.exists,
                      exists4k |-> p.exists4k, saved |-> p.c.saved,
                      issued |-> p.c.nsaves, spawned |-> Len(p.c.spawned),
                      calls |-> p.c.calls, seriesCalls |-> p.c.seriesCalls,
                      threw |-> p.threw, fails |-> fails]
          /\ IF p.threw
             THEN /\ running' = FALSE
                  /\ runs' = [runs EXCEPT ![r] = [seen EXCEPT !.pc = "done",
                                !.outcome = "failed", !.error = "save", !.page = <<>>]]
             ELSE /\ UNCHANGED running
                  /\ runs' = [runs EXCEPT ![r] =
                       IF rest = <<>>
                       THEN [seen EXCEPT !.pc = "fetch", !.page = <<>>,
                                         !.offset = @ + PageSize]
                       ELSE [seen EXCEPT !.pc = "take", !.page = rest]]
  /\ UNCHANGED <<world, plexClient, radarrServers, sonarrServers>>

\* cancel()
Cancel ==
  /\ env.cancel
  /\ ActiveRuns # {}
  /\ running' = FALSE
  /\ runs' = [r \in Runs |-> IF Active(r) THEN [runs[r] EXCEPT !.cancelled = TRUE]
                             ELSE runs[r]]
  /\ step' = [act |-> "Cancel", run |-> 0]
  /\ UNCHANGED <<world, db, plexClient, plexSeasonsCache, sonarrSeasonsCache, populated,
                 radarrServers, sonarrServers, tasks>>

\* mediaUpdater (part) of a series resumes after findMediaStatus: the
\* assignments, then the call of save.
UpdaterQuery(i) ==
  /\ i \in 1..Len(tasks)
  /\ tasks[i].stage = "query"
  /\ LET t == tasks[i]
         m == SetDeleted(t.media, t.is4k, findMediaStatus(t.media, t.is4k))
     IN /\ tasks' = [tasks EXCEPT ![i].stage = "save", ![i].media = m, ![i].late = m]
        /\ runs' = [runs EXCEPT ![t.run].issued = @ + 1]
        /\ step' = [act |-> "UpdaterQuery", run |-> t.run, before |-> t.media,
                    after |-> m, is4k |-> t.is4k]
  /\ UNCHANGED <<world, db, running, plexClient, plexSeasonsCache, sonarrSeasonsCache, populated,
                 radarrServers, sonarrServers>>

\* The save of a mediaUpdater call ends: the row is written, or the save
\* throws into the catch of mediaUpdater.
UpdaterSave(i) ==
  /\ i \in 1..Len(tasks)
  /\ tasks[i].stage = "save"
  /\ \E ok \in {TRUE, ~env.faults} : \E written \in {tasks[i].media, tasks[i].late} :
       /\ db' = IF ok THEN [db EXCEPT ![written.id] = Row(written)] ELSE db
       /\ step' = [act |-> "UpdaterSave", run |-> tasks[i].run, ok |-> ok,
                   before |-> tasks[i].origin,
                   exists |-> tasks[i].exists, exists4k |-> tasks[i].exists4k,
                   saved |-> IF ok THEN <<Row(written)>> ELSE <<>>]
  /\ tasks' = RemoveAt(tasks, i)
  /\ UNCHANGED <<world, running, plexClient, plexSeasonsCache, sonarrSeasonsCache, populated,
                 radarrServers, sonarrServers, runs>>

Next ==
  \/ \E r \in Runs : RunStart(r)
  \/ \E r \in Runs : RunInit(r)
  \/ \E r \in Runs : Fetch(r)
  \/ \E r \in Runs : Take(r)
  \/ \E r \in Runs : Process(r)
  \/ Cancel
  \/ \E i \in 1..Len(tasks) : UpdaterQuery(i)
  \/ \E i \in 1..Len(tasks) : UpdaterSave(i)

Spec == Init /\ [][Next]_vars

\* ---------------------------------------------------------- properties
AtRecords(r) == runs[r].pc \in {"fetch", "take", "process"}

JustEnded(r) ==
  /\ step.run = r
  /\ step.act \in {"RunInit", "Fetch", "Take", "Process"}
  /\ runs[r].pc = "done"

\* C1: a run() invoked while another run is active examines no record and
\* issues no write, and no two runs are in their record loops at once.
C1_NotReentrant ==
  /\ \A r \in Runs : runs[r].overlapped => runs[r].examined = {} /\ runs[r].issued = 0
  /\ \A r, q \in Runs : r # q => ~(AtRecords(r) /\ AtRecords(q))

\* C2: once cancel() has been called on an active run, that run takes no
\* further record into processing (the record in flight excepted).
C2_NoRecordAfterCancel == \A r \in Runs : ~runs[r].afterCancel

\* C3: a run ended by cancel() ('Job aborted') is not reported by the catch
\* block that reports an unexpected failure.
C3_AbortedIsNotFailed ==
  \A r \in Runs : runs[r].error = "Job aborted" => runs[r].outcome # "failed"

\* C4: in the state a run() has just ended in, whether complete, aborted,
\* failed or returned early, running is false.
C4_GuardReleased == \A r \in Runs : JustEnded(r) => ~running

\* a run was aborted by cancel() after an earlier run had returned early
\* without a Plex client
C4_Witness ==
  /\ JustEnded(2)
  /\ runs[2].error = "Job aborted"
  /\ runs[1].outcome = "skipped"
  /\ ~running

Variants == {FALSE, TRUE}

SeasonStatus(season, is4k) == IF is4k THEN season.status4k ELSE season.status

TerminalKept(old, new) ==
  /\ \A is4k \in Variants :
       StatusOf(old, is4k) \in Terminal =>
         /\ StatusOf(new, is4k) = StatusOf(old, is4k)
         /\ Linkage(new, is4k) = Linkage(old, is4k)
  /\ \A n \in DOMAIN old.seasonObj : \A is4k \in Variants :
       SeasonStatus(old.seasonObj[n], is4k) \in Terminal =>
         SeasonStatus(new.seasonObj[n], is4k) = SeasonStatus(old.seasonObj[n], is4k)

\* the steps that process a record: the loop body of run(), and the two
\* halves of a mediaUpdater call it left behind
Processing == step.act \in {"Process", "UpdaterQuery", "UpdaterSave"}

\* the rows the step wrote, and the entity as the step left it
Written ==
  (IF step.act \in {"Process", "UpdaterSave"}
   THEN {step.saved[i] : i \in DOMAIN step.saved} ELSE {})
  \cup (IF step.act \in {"Process", "UpdaterQuery"} THEN {step.after} ELSE {})

\* C5: processing a record writes no row, and leaves no entity, in which a
\* variant that was DELETED or UNKNOWN when the record was loaded has
\* another status or other linkage columns; the same for its seasons.
C5_TerminalGuard == Processing => \A row \in Written : TerminalKept(step.before, row)

Downward(old, new) ==
  old = new \/ new \in Terminal \/ (old = AVAILABLE /\ new = PARTIALLY_AVAILABLE)

NoUpgrade(old, new) ==
  /\ \A is4k \in Variants : Downward(StatusOf(old, is4k), StatusOf(new, is4k))
  /\ \A n \in DOMAIN old.seasonObj : \A is4k \in Variants :
       Downward(SeasonStatus(old.seasonObj[n], is4k), SeasonStatus(new.seasonObj[n], is4k))

C7_SecondRunWritesNothing ==
  (runs[1].outcome = "complete" /\ ~runs[2].overlapped /\ ~runs[2].unsettled /\ ~env.faults)
    => runs[2].issued = 0

\* C8: a complete run that was not cancelled has examined every row that
\* was eligible when it started.
C8_FullRescan ==
  \A r \in Runs :
    (runs[r].outcome = "complete" /\ ~runs[r].cancelled /\ \A q \in Runs : ~runs[q].overlapped)
      => runs[r].eligible0 \subseteq runs[r].examined

\* What the services hold: the item of the rating key is in Plex; an enabled
\* server of the variant has the movie's file, or episode files of the
\* series.
InPlex(m, is4k) ==
  LET key == IF is4k THEN m.ratingKey4k ELSE m.ratingKey
  IN key # Null /\ ext.plex[key] = "found"

InService(m, is4k) ==
  LET servers == SyncEnabled(IF m.mediaType = MOVIE THEN settings.radarr ELSE settings.sonarr)
      id == IF is4k THEN m.externalServiceId4k ELSE m.externalServiceId
  IN /\ id # Null
     /\ \E i \in 1..Len(servers) :
          /\ servers[i].is4k = is4k
          /\ IF m.mediaType = MOVIE
             THEN ext.radarr[<<servers[i].id, id>>] = "file"
             ELSE LET ans == ext.sonarr[<<servers[i].id, id>>]
                  IN ans.kind = "series" /\ ans.episodeFileCount > 0

VariantExists(m, is4k) == InPlex(m, is4k) \/ InService(m, is4k)

\* the processing of a record is over: the loop body is done and the
\* mediaUpdater call it left behind, if any, has saved
Settled ==
  \/ step.act = "Process" /\ ~step.threw /\ step.spawned = 0
  \/ step.act = "UpdaterSave"

\* C9: once the processing of a record is over, every variant of it that is
\* in no service and was AVAILABLE or PARTIALLY_AVAILABLE is DELETED in
\* the table.
C9_AbsentVariantDeleted ==
  (impl = "part" /\ ~env.faults /\ Settled) =>
    \A is4k \in Variants :
      (~VariantExists(step.before, is4k) /\ StatusOf(step.before, is4k) \in Present)
        => StatusOf(db[step.before.id], is4k) = DELETED

\* mediaExistsInRadarr found exactly one variant of the movie: is4k is the
\* variant it did not find
OneVariantLost(is4k) ==
  /\ impl = "part" /\ ~env.faults /\ Settled
  /\ step.before.mediaType = MOVIE
  /\ IF is4k THEN step.exists /\ ~step.exists4k ELSE ~step.exists /\ step.exists4k

VariantKept(old, new, is4k) ==
  StatusOf(new, is4k) = StatusOf(old, is4k) /\ Linkage(new, is4k) = Linkage(old, is4k)

VariantDeleted(new, is4k) == StatusOf(new, is4k) = DELETED /\ Linkage(new, is4k) = Unset

Cascade ==
  /\ step.act = "Process"
  /\ step.before.mediaType = TV
  /\ ~step.exists /\ ~step.exists4k
  /\ ~step.threw /\ step.fails = {}

\* every variant of the record that was AVAILABLE or PARTIALLY_AVAILABLE
\* is DELETED in new
ParentsDeleted(old, new) ==
  \A is4k \in Variants :
    StatusOf(old, is4k) \in Present => StatusOf(new, is4k) = DELETED

\* every season variant that was AVAILABLE or PARTIALLY_AVAILABLE is in
\* one of the statuses of to in new
SeasonsSetTo(old, new, to) ==
  \A n \in DOMAIN old.seasonObj : \A is4k \in Variants :
    SeasonStatus(old.seasonObj[n], is4k) \in Present
      => SeasonStatus(new.seasonObj[n], is4k) \in to

SeriesDone ==
  /\ step.act = "Process"
  /\ step.before.mediaType = TV
  /\ ~step.threw /\ step.fails = {} /\ step.spawned = 0

\* season n went from AVAILABLE or PARTIALLY_AVAILABLE to DELETED or
\* UNKNOWN in the variant
SeasonLost(old, new, n, is4k) ==
  /\ SeasonStatus(old.seasonObj[n], is4k) \in Present
  /\ SeasonStatus(new.seasonObj[n], is4k) \in Terminal

\* the variant of the series was AVAILABLE and was found by mediaExists,
\* and some of its seasons, not all, were lost in the row new
SomeSeasonsLost(old, new, is4k) ==
  /\ StatusOf(old, is4k) = AVAILABLE
  /\ IF is4k THEN step.exists4k ELSE step.exists
  /\ \E n \in DOMAIN old.seasonObj : SeasonLost(old, new, n, is4k)
  /\ \E n \in DOMAIN old.seasonObj : ~SeasonLost(old, new, n, is4k)

\* C12: when some but not all seasons of a series whose variant is
\* AVAILABLE are lost for that variant, the row in the table has the
\* parent's variant PARTIALLY_AVAILABLE and the other seasons unchanged.
C12_DemotionPersisted ==
  SeriesDone =>
    \A is4k \in Variants :
      SomeSeasonsLost(step.before, db[step.before.id], is4k) =>
        /\ StatusOf(db[step.before.id], is4k) = PARTIALLY_AVAILABLE
        /\ \A n \in DOMAIN step.before.seasonObj :
             ~SeasonLost(step.before, db[step.before.id], n, is4k) =>
               SeasonStatus(db[step.before.id].seasonObj[n], is4k)
                 = SeasonStatus(step.before.seasonObj[n], is4k)

\* the variant of the parent went from AVAILABLE to PARTIALLY_AVAILABLE
Demoted(old, new, is4k) ==
  StatusOf(old, is4k) = AVAILABLE /\ StatusOf(new, is4k) = PARTIALLY_AVAILABLE

\* C13: in every row that the processing of a series writes, and in the
\* entity it leaves, a parent variant is demoted from AVAILABLE to
\* PARTIALLY_AVAILABLE only when a season was lost in that same variant.
C13_DemotionVariantScoped ==
  (step.act = "Process" /\ step.before.mediaType = TV) =>
    \A row \in Written : \A is4k \in Variants :
      Demoted(step.before, row, is4k) =>
        \E n \in DOMAIN step.before.seasonObj : SeasonLost(step.before, row, n, is4k)

\* the variant became DELETED in new while an APPROVED request of the
\* media exists for it
DeletedWhileRequested(old, new, is4k) ==
  /\ StatusOf(old, is4k) # DELETED
  /\ StatusOf(new, is4k) = DELETED
  /\ ext.approved[<<old.id, is4k>>]

\* C14: in every row that the processing of a record writes (part_001), a
\* variant that became DELETED while an APPROVED request exists for it has
\* the four linkage columns it had when the record was loaded.
C14_LinkagePreserved ==
  (impl = "part" /\ Processing) =>
    \A row \in Written : \A is4k \in Variants :
      DeletedWhileRequested(step.before, row, is4k) =>
        Linkage(row, is4k) = Linkage(step.before, is4k)

BecameDeleted(old, new, is4k) ==
  StatusOf(old, is4k) # DELETED /\ StatusOf(new, is4k) = DELETED

\* C15: in every row that the processing of a record writes, a variant
\* whose linkage columns differ from the loaded ones has become DELETED,
\* and a variant that has become DELETED with no APPROVED request for it
\* has all four linkage columns unset.
C15_LinkageClearedOnDeletion ==
  Processing =>
    \A row \in Written : \A is4k \in Variants :
      /\ Linkage(row, is4k) # Linkage(step.before, is4k)
           => BecameDeleted(step.before, row, is4k)
      /\ (BecameDeleted(step.before, row, is4k) /\ ~ext.approved[<<row.id, is4k>>])
           => Linkage(row, is4k) = Unset

\* no two calls of the kind among the remote calls are the same call
NoRepeat(calls, kind) ==
  \A i, j \in DOMAIN calls : (i # j /\ calls[i][1] = kind) => calls[i] # calls[j]

\* C16: the remote calls made while one record is processed (part_001)
\* hold at most one getSeriesById per server and external id.
C16_SeriesFetchedOnce ==
  (impl = "part" /\ step.act = "Process") => NoRepeat(step.calls, "getSeriesById")

\* C17: the remote calls made while one record is processed hold at most
\* one getChildrenMetadata per rating key, whatever the listing answers.
C17_ChildrenFetchedOnce ==
  step.act = "Process" => NoRepeat(step.calls, "getChildrenMetadata")

\* every entry of the cache was stored after the run began
StoredSince(stamps, r) == \A k \in DOMAIN stamps : stamps[k] >= r

\* C18: both caches are empty when run() has just been entered, and after
\* a run has processed a record every entry of both caches was stored
\* after that run began.
C18_CachesRunScoped ==
  /\ step.act = "RunStart" => (plexSeasonsCache = <<>> /\ sonarrSeasonsCache = <<>>)
  /\ step.act = "Process" =>
       (StoredSince(populated.plex, step.run) /\ StoredSince(populated.sonarr, step.run))

\* the second run has fetched for itself a child listing and a series
\* that the first run had fetched, and holds both in the caches
C18_Witness ==
  /\ step.act = "Process" /\ step.run = 2
  /\ step.before.id \in runs[1].examined
  /\ \E k \in DOMAIN plexSeasonsCache : k \in CallKeys(step.calls, "getChildrenMetadata")
  /\ \E k \in DOMAIN sonarrSeasonsCache : k \in CallKeys(step.calls, "getSeriesById")

\* C19: when a save fails while a record is processed (part_001), the
\* run goes on with the records after it: it is neither ended nor failed.
C19_FailureContained ==
  (impl = "part" /\ step.act = "Process" /\ step.fails # {}) =>
    (AtRecords(step.run) /\ runs[step.run].outcome = "none")

\* the table holds two records, and each probe answers about the second
\* what it answers about the first, or Absent where it fails for the first
IsTwin ==
  /\ DOMAIN db = {1, 2}
  /\ db[2].mediaType = db[1].mediaType
  /\ ext = TwinExt(ext)

\* a record without its id: the statuses, which columns are set, the
\* statuses of the seasons
Anon(m) ==
  [status |-> m.status, status4k |-> m.status4k,
   linked |-> [is4k \in Variants |-> [j \in 1..4 |-> Linkage(m, is4k)[j] # Null]],
   seasons |-> [n \in DOMAIN m.seasonObj |->
                  <<m.seasonObj[n].status, m.seasonObj[n].status4k>>]]

AnonAll(rows) == [i \in DOMAIN rows |-> Anon(rows[i])]

\* C20: a record whose probes fail is processed as its twin, whose probes
\* answer Absent instead, would be: the same entity, the same rows saved,
\* as many mediaUpdater calls, and the run goes on.
C20_ErrorAsAbsent ==
  (IsTwin /\ step.act = "Process" /\ step.run = 1 /\ step.before.id = 1) =>
    LET Same(p) ==
          /\ ~step.threw
          /\ Anon(step.after) = Anon(p.c.media)
          /\ AnonAll(step.saved) = AnonAll(p.c.saved)
          /\ step.spawned = Len(p.c.spawned)
    IN Same(IF impl = "lib" THEN ProcessLib(db[2], 1, {}) ELSE ProcessPart(db[2], 1, {}))

\* C21: every step that processes a record processes one that was eligible
\* when it was loaded, and no step changes a row of the table in which
\* neither variant is AVAILABLE or PARTIALLY_AVAILABLE.
C21_OnlyEligibleTouched ==
  [][/\ Processing' => Eligible(step'.before)
     /\ \A id \in DOMAIN db : ~Eligible(db[id]) => db'[id] = db[id]]_vars

\* the record owns the seasons it owned: the same array of references,
\* the same Season objects under the same numbers
SameSeasons(old, new) ==
  /\ new.seasons = old.seasons
  /\ DOMAIN new.seasonObj = DOMAIN old.seasonObj
  /\ \A n \in DOMAIN old.seasonObj :
       new.seasonObj[n].seasonNumber = old.seasonObj[n].seasonNumber

\* C22: the table keeps its rows, and every row a processing step writes,
\* and the entity it leaves, owns exactly the seasons the record had when
\* it was loaded, each once.
C22_SeasonsKept ==
  /\ step.act # "none" => DOMAIN db = 1..Len(db)
  /\ Processing => \A row \in Written : SameSeasons(step.before, row)

\* an AVAILABLE status stays, or becomes PARTIALLY_AVAILABLE or DELETED,
\* or becomes UNKNOWN when the title is gone
AvailableLeft(old, new, gone) ==
  old = AVAILABLE =>
    (new \in {AVAILABLE, PARTIALLY_AVAILABLE, DELETED} \/ (new = UNKNOWN /\ gone))

\* C23: in every row that the processing of a record (part_001) writes,
\* and in the entity it leaves, a status of the record or of one of its
\* seasons that was AVAILABLE is AVAILABLE, PARTIALLY_AVAILABLE or DELETED,
\* or it is UNKNOWN and mediaExists found the title in neither variant.
C23_AvailableDemotedOrDeleted ==
  (impl = "part" /\ step.act \in {"Process", "UpdaterSave"}) =>
    \A row \in Written : \A is4k \in Variants :
      /\ AvailableLeft(StatusOf(step.before, is4k), StatusOf(row, is4k),
                       ~step.exists /\ ~step.exists4k)
      /\ \A n \in DOMAIN step.before.seasonObj :
           AvailableLeft(SeasonStatus(step.before.seasonObj[n], is4k),
                         SeasonStatus(row.seasonObj[n], is4k),
                         ~step.exists /\ ~step.exists4k)

\* C24: each row that run() and the season handling save while a record
\* is processed differs from the row saved before it, the first from the
\* record as it was loaded.
C24_NoNoopWrites ==
  (step.act = "Process" /\ step.fails = {}) =>
    \A i \in DOMAIN step.saved :
      step.saved[i] # (IF i = 1 THEN Row(step.before) ELSE step.saved[i - 1])

\* initPlexClient of the run found no admin user
NoAdmin(r) == runs[r].adminMissing \/ runs[r].outcome = "skipped"

\* C25: a run whose initPlexClient found no admin user examines no record
\* and issues no save.
C25_NoAdminNoWork ==
  \A r \in Runs : NoAdmin(r) => (runs[r].examined = {} /\ runs[r].issued = 0)

\* C26: for a movie (part_001), mediaExists finds a variant exactly when
\* Plex has its rating key or a sync-enabled Radarr server of the variant
\* has the movie with its file; and a variant that only Radarr has keeps
\* its status and its linkage columns in every row written.
C26_MovieExistence ==
  (impl = "part" /\ step.act = "Process" /\ step.before.mediaType = MOVIE) =>
    \A is4k \in Variants :
      /\ (IF is4k THEN step.exists4k ELSE step.exists) = VariantExists(step.before, is4k)
      /\ (InService(step.before, is4k) /\ ~InPlex(step.before, is4k)) =>
           \A row \in Written : VariantKept(step.before, row, is4k)

\* Plex has both rating keys of the record
BothInPlex(m) == InPlex(m, FALSE) /\ InPlex(m, TRUE)

Called(calls, kind) == \E i \in DOMAIN calls : calls[i][1] = kind

\* C27: a movie of which Plex has both rating keys is reported existent
\* in both variants, no getMovie is called for it, and processing it
\* changes nothing: no save, no mediaUpdater call, the entity as loaded.
C27_MovieShortCircuit ==
  (step.act = "Process" /\ step.before.mediaType = MOVIE /\ BothInPlex(step.before)) =>
    /\ step.exists /\ step.exists4k /\ ~step.threw
    /\ ~Called(step.calls, "getMovie")
    /\ step.issued = 0 /\ step.saved = <<>> /\ step.spawned = 0
    /\ step.after = step.before

\* such a movie, with both external ids set while no Radarr server that
\* would be asked has its file, has been processed in each revision
C27_Seen(i) ==
  /\ impl = i /\ step.act = "Process" /\ step.before.mediaType = MOVIE
  /\ BothInPlex(step.before)
  /\ step.before.externalServiceId # Null /\ step.before.externalServiceId4k # Null
  /\ Len(radarrServers) = 2
  /\ ~InService(step.before, FALSE) /\ ~InService(step.before, TRUE)
  /\ Len(step.calls) = 2

C27_Witness == C27_Seen("part")

C27_WitnessLib == C27_Seen("lib")

\* C28: a series of which Plex has both rating keys is reported existent
\* in both variants, and mediaExistsInSonarr has called no server for it.
C28_SeriesShortCircuit ==
  (step.act = "Process" /\ step.before.mediaType = TV /\ BothInPlex(step.before)) =>
    (step.exists /\ step.exists4k /\ step.seriesCalls = 0)

\* What the services hold of a season: it is among the children Plex lists
\* for the variant's rating key; an enabled server of the variant lists it
\* with episode files.
PlexLists(m, n, is4k) ==
  LET key == IF is4k THEN m.ratingKey4k ELSE m.ratingKey
  IN key # Null /\ ext.children[key].kind = "value" /\ n \in ext.children[key].val

HasFiles(m, n, is4k) ==
  LET servers == SyncEnabled(settings.sonarr)
      id == IF is4k THEN m.externalServiceId4k ELSE m.externalServiceId
  IN /\ id # Null
     /\ \E i \in 1..Len(servers) :
          /\ servers[i].is4k = is4k
          /\ LET ans == ext.sonarr[<<servers[i].id, id>>]
             IN ans.kind = "series" /\ ans.seasons[n] = "files"

SeasonVariantExists(m, n, is4k) == PlexLists(m, n, is4k) \/ HasFiles(m, n, is4k)

\* C29: when a series that exists in both variants has been processed, a
\* variant of a season that was AVAILABLE or PARTIALLY_AVAILABLE keeps its
\* status exactly when Plex lists the season for the variant or a server of
\* the variant lists it with episode files.
C29_SeasonExistence ==
  (step.act = "Process" /\ step.before.mediaType = TV /\ step.exists /\ step.exists4k) =>
    \A ref \in DOMAIN step.before.seasonObj : \A is4k \in Variants :
      SeasonStatus(step.before.seasonObj[ref], is4k) \in Present =>
        ((SeasonStatus(step.after.seasonObj[ref], is4k)
            = SeasonStatus(step.before.seasonObj[ref], is4k))
         <=> SeasonVariantExists(step.before, step.before.seasonObj[ref].seasonNumber, is4k))

\* the series-level check of mediaExistsInSonarr failed for the variant of
\* a series that has the variant's rating key
ShowLost(is4k) ==
  /\ impl = "part" /\ step.act = "Process" /\ step.before.mediaType = TV
  /\ (IF is4k THEN step.before.ratingKey4k ELSE step.before.ratingKey) # Null
  /\ ~(IF is4k THEN step.exists4k ELSE step.exists)

\* the child listing of the key was read: from Plex, or from the cache
Consulted(key) ==
  \/ \E i \in DOMAIN step.calls : step.calls[i] = <<"getChildrenMetadata", key>>
  \/ key \in DOMAIN plexSeasonsCache

\* C30: when the series-level check failed for a variant (part_001), the
\* child listing of the variant's rating key has been consulted, and every
\* season of the variant that Plex lists and that was AVAILABLE or
\* PARTIALLY_AVAILABLE keeps its status.
C30_ListingStillConsulted ==
  \A is4k \in Variants :
    ShowLost(is4k) =>
      /\ Consulted(IF is4k THEN step.before.ratingKey4k ELSE step.before.ratingKey)
      /\ \A ref \in DOMAIN step.before.seasonObj :
           (/\ PlexLists(step.before, step.before.seasonObj[ref].seasonNumber, is4k)
            /\ SeasonStatus(step.before.seasonObj[ref], is4k) \in Present)
             => SeasonStatus(step.after.seasonObj[ref], is4k)
                  = SeasonStatus(step.before.seasonObj[ref], is4k)

\* the mediaUpdater calls of run r that have not settled yet
Outstanding(r) == {i \in DOMAIN tasks : tasks[i].run = r}

\* C31: when a run (part_001) has taken a record into processing, no
\* mediaUpdater call of an earlier record of that run is still pending.
C31_SequentialRecords ==
  \A r \in Runs : (impl = "part" /\ runs[r].pc = "process") => Outstanding(r) = {}

\* C35: when a run (part_001) has ended, no mediaUpdater call it made is
\* still pending: every save it started has settled.
C35_NoSaveOutstanding ==
  \A r \in Runs : (impl = "part" /\ runs[r].pc = "done") => Outstanding(r) = {}

\* a season of the record lost the variant in the step: its status went to
\* DELETED or UNKNOWN
SeasonLostIn(old, new, is4k) ==
  \E ref \in DOMAIN old.seasonObj :
    /\ SeasonStatus(old.seasonObj[ref], is4k) \notin Terminal
    /\ SeasonStatus(new.seasonObj[ref], is4k) \in Terminal

\* C32: when processing a series leaves a season's variant DELETED or
\* UNKNOWN, and the series itself is held in that variant, a parent status
\* of the variant that was not AVAILABLE is the same in every row written
\* and in the entity.
C32_OnlyAvailableDemoted ==
  (step.act = "Process" /\ step.before.mediaType = TV) =>
    \A is4k \in Variants :
      (/\ IF is4k THEN step.exists4k ELSE step.exists
       /\ SeasonLostIn(step.before, step.after, is4k)
       /\ StatusOf(step.before, is4k) # AVAILABLE)
        => \A row \in Written : StatusOf(row, is4k) = StatusOf(step.before, is4k)

C32_Seen(i, st) ==
  /\ impl = i /\ step.act = "Process" /\ step.before.mediaType = TV
  /\ step.saved # <<>>
  /\ \E is4k \in Variants :
       /\ IF is4k THEN step.exists4k ELSE step.exists
       /\ SeasonLostIn(step.before, step.after, is4k)
       /\ StatusOf(step.before, is4k) = st
       /\ StatusOf(step.after, is4k) = st

C32_Witness == C32_Seen("part", PARTIALLY_AVAILABLE)

C32_WitnessLib == C32_Seen("lib", DELETED)

\* The steps of run r up to the call of mediaExists: each await of run()
\* settles, because every query returns or throws.
RunStep(r) == RunInit(r) \/ Fetch(r) \/ Take(r)

\* The await of mediaExists settles, because every remote call returns or
\* throws. Process(r) is enabled exactly when the run is at "process" and
\* every Process(r) step leaves it, so this is weak fairness of Process(r).
Settles(r) == []<>(runs[r].pc # "process")

\* A series AVAILABLE in both variants of which only the standard variant
\* is left in Plex, and the catalogues.
LiveWorlds ==
  \/ CatalogueWorlds
  \/ \E i \in Impls :
       InWorld(SeriesWorld(i, CalmCallers, Both, <<AVAILABLE, AVAILABLE>>, All,
                           [k \in Keys({1}) |-> IF k[2] THEN "notfound" ELSE "found"],
                           NoChildren({1}), NoSeries({1}), NoRequests({1}), AllAvailable))

LiveInit == LiveWorlds /\ Constructed /\ requests = NoRequestRows

LiveSpec ==
  LiveInit /\ [][Next]_vars /\ \A r \in Runs : WF_vars(RunStep(r)) /\ Settles(r)

\* C33: a run that has started eventually ends, and running is false when
\* it has.
C33_RunTerminates ==
  \A r \in Runs : (runs[r].pc # "idle") ~> (runs[r].pc = "done" /\ ~running)

\* a run has gone through the whole catalogue, page after page, and ended
C33_Witness ==
  \E r \in Runs : runs[r].pc = "done" /\ runs[r].outcome = "complete"
                  /\ runs[r].examined = 1..NumMedia /\ ~running

\* C34: a run (part_001) that ended with 'Job aborted' had cancel() called
\* on it while it was active, and a run on which cancel() was called takes
\* no further record, whatever run() invocations follow.
C34_AbortOnlyByCancel ==
  impl = "part" =>
    \A r \in Runs :
      /\ runs[r].error = "Job aborted" => runs[r].cancelled
      /\ runs[r].cancelled => ~runs[r].afterCancel

\* the table holds two records, and the two servers of the standard variant
\* answer about the second what the other answers about the first
IsSwap ==
  /\ DOMAIN db = {1, 2}
  /\ db[2].mediaType = db[1].mediaType
  /\ settings.radarr = TwoStandard \/ settings.sonarr = TwoStandard
  /\ ext = SwapExt(ext)

\* two sync-enabled servers serve the standard variant of the record
Several(m) ==
  /\ m.externalServiceId # Null
  /\ (IF m.mediaType = MOVIE THEN settings.radarr ELSE settings.sonarr) = TwoStandard

\* the resolvers the claim is about: both of part_001, mediaExistsInRadarr
\* of lib
Resolved ==
  /\ step.act = "Process"
  /\ impl = "part" \/ step.before.mediaType = MOVIE

\* C36: under two servers of the standard variant a record is processed as
\* the record for which the two servers answer the other way round would
\* be; and a variant that several servers serve counts as existent exactly
\* when Plex has it or one of the servers has its files.
C36_ServerOrderFree ==
  /\ (IsSwap /\ Resolved /\ step.run = 1 /\ step.before.id = 1) =>
       LET Same(p) ==
             /\ step.exists = p.exists /\ step.exists4k = p.exists4k
             /\ Anon(step.after) = Anon(p.c.media)
             /\ AnonAll(step.saved) = AnonAll(p.c.saved)
             /\ step.spawned = Len(p.c.spawned)
       IN Same(IF impl = "lib" THEN ProcessLib(db[2], 1, {}) ELSE ProcessPart(db[2], 1, {}))
  /\ (Resolved /\ Several(step.before)) =>
       step.exists = VariantExists(step.before, FALSE)

\* ------------------------------------------------ SeasonRequest entity
\* MediaRequestStatus, and the requests of the tables: RequestOf[s] is the
\* MediaRequest that season request s belongs to (season.request).
COMPLETED == "COMPLETED"

MediaRequestStatus == {"PENDING", "APPROVED", "DECLINED", COMPLETED}

NumRequests == 2

RequestOf == <<1, 1, 2>>

MaxHooks == 2

\* request.seasons: the season requests of the request, in order
SeasonsOf(id) ==
  SelectSeq2([s \in DOMAIN RequestOf |-> s], [s \in DOMAIN RequestOf |-> RequestOf[s] = id])

\* mediaRequestRepository.findOneOrFail({ where: { id } }): the request
\* with the statuses of its season requests
findOneOrFail(rows, id) ==
  [id |-> id, status |-> rows.status[id],
   seasons |-> [k \in 1..Len(SeasonsOf(id)) |-> rows.seasons[SeasonsOf(id)[k]]]]

\* requestToBeDeleted before findOneOrFail has answered
NotFoundYet == [id |-> 0, status |-> "none", seasons |-> <<>>]

IsCompleted(status) == status = COMPLETED

\* the filter keeping every season request, whatever its status
everySeason(requestToBeDeleted) == requestToBeDeleted.seasons

\* requestToBeDeleted.seasons.filter(season => season.status === COMPLETED)
allSeasonsAreCompleted(requestToBeDeleted) ==
  SelectSeq(requestToBeDeleted.seasons, IsCompleted)

\* the engine, which these tables do not touch
engine == <<impl, settings, ext, env, db, running, plexClient, plexSeasonsCache,
            sonarrSeasonsCache, radarrServers, sonarrServers, runs, tasks, populated>>

\* Requests in any statuses, no hook under way; the engine is idle over an
\* empty configuration.
RequestInit ==
  /\ \E px \in PlexFor(FALSE, FALSE, {"notfound"}),
        ra \in ServerAnswers(<<>>, FALSE, FALSE, {"nofile"}, "error") :
       InWorld(MovieWorld("part", CalmCallers, <<>>, DELETED, DELETED,
                          FALSE, FALSE, FALSE, FALSE, px, ra))
  /\ Constructed
  /\ \E st \in [1..NumRequests -> MediaRequestStatus],
        sst \in [DOMAIN RequestOf -> MediaRequestStatus] :
       requests = [status |-> st, seasons |-> sst, hooks |-> <<>>]

\* A SeasonRequest is saved with another status: the row is updated and
\* @AfterUpdate calls handleRemoveParent on it.
SeasonRequestUpdate(s, status) ==
  /\ Len(requests.hooks) < MaxHooks
  /\ status # requests.seasons[s]
  /\ requests' = [requests EXCEPT
                    !.seasons[s] = status,
                    !.hooks = Append(@, [self |-> s, pc |-> "find",
                                         requestToBeDeleted |-> NotFoundYet, rows |-> <<>>])]
  /\ step' = [act |-> "SeasonRequestUpdate", run |-> 0]
  /\ UNCHANGED engine

\* handleRemoveParent resumes with the request that findOneOrFail found
\* (rows: the season requests of that request as they were then, history)
HookFind(i) ==
  /\ i \in DOMAIN requests.hooks
  /\ requests.hooks[i].pc = "find"
  /\ requests' = [requests EXCEPT
                    !.hooks[i].pc = "update",
                    !.hooks[i].requestToBeDeleted =
                      findOneOrFail(requests, RequestOf[requests.hooks[i].self]),
                    !.hooks[i].rows =
                      [s \in {s \in DOMAIN RequestOf :
                                RequestOf[s] = RequestOf[requests.hooks[i].self]}
                         |-> requests.seasons[s]]]
  /\ step' = [act |-> "HookFind", run |-> 0]
  /\ UNCHANGED engine

\* the comparison of the lengths, the update of the request when they are
\* equal, and the end of the hook
HookUpdate(i) ==
  /\ i \in DOMAIN requests.hooks
  /\ requests.hooks[i].pc = "update"
  /\ LET hook == requests.hooks[i]
         requestToBeDeleted == hook.requestToBeDeleted
     IN /\ requests' =
             [requests EXCEPT
                !.status[requestToBeDeleted.id] =
                  IF Len(requestToBeDeleted.seasons)
                       = Len(allSeasonsAreCompleted(requestToBeDeleted))
                  THEN COMPLETED ELSE @,
                !.hooks = RemoveAt(@, i)]
        /\ step' = [act |-> "HookUpdate", run |-> 0, self |-> hook.self,
                    rows |-> hook.rows, before |-> requests.status[RequestOf[hook.self]]]
  /\ UNCHANGED engine

RequestNext ==
  \/ \E s \in DOMAIN RequestOf, status \in MediaRequestStatus : SeasonRequestUpdate(s, status)
  \/ \E i \in 1..MaxHooks : HookFind(i)
  \/ \E i \in 1..MaxHooks : HookUpdate(i)

RequestSpec == RequestInit /\ [][RequestNext]_vars

\* C37: when handleRemoveParent ends, the request of the season request is
\* COMPLETED if every season request of that request was COMPLETED when the
\* hook looked, and has the status it had otherwise; no other request has
\* changed.
C37_ParentCompleted ==
  [][step'.act = "HookUpdate" =>
       LET id == RequestOf[step'.self]
       IN /\ requests'.status[id] =
               (IF \A s \in DOMAIN step'.rows : step'.rows[s] = COMPLETED
                THEN COMPLETED ELSE requests.status[id])
          /\ \A other \in DOMAIN requests.status :
               other # id => requests'.status[other] = requests.status[other]]_vars

\* a hook has set a request of two season requests to COMPLETED
C37_Witness ==
  /\ step.act = "HookUpdate" /\ RequestOf[step.self] = 1
  /\ step.before # COMPLETED /\ requests.status[1] = COMPLETED

\* a hook has left a request as it was, one season request being COMPLETED
\* and the other not
C37_WitnessKept ==
  /\ step.act = "HookUpdate" /\ RequestOf[step.self] = 1
  /\ step.rows[1] = COMPLETED /\ step.rows[2] # COMPLETED
  /\ requests.status[1] = step.before /\ step.before # COMPLETED

====
